---- MODULE Spec2Model ----
(***************************************************************************)
(* A model of go-readability: the DOM tree kept by Node (parent, sibling   *)
(* and element-sibling links, ChildNodes and Children), the parser that    *)
(* builds it, the constructor New and the retry loop of grabArticle        *)
(* inside Readability.Parse.                                               *)
(*                                                                         *)
(* Go slices are modelled as sequences.  Positions are 1-based; indexOf    *)
(* answers NotFound (0) where the Go code answers -1.  A method is written *)
(* as the composition of its statements, each an operator from the fields  *)
(* of all nodes (h) to the fields after the statement.                     *)
(***************************************************************************)
EXTENDS Integers, Sequences, FiniteSets, TLC

\* ------------------------------------------------------------------ bounds
\* element nodes, text nodes and spare node slots of the node pool
NumElems == 3
NumTexts == 1
NumFresh == 2
\* longest run of tree calls explored
MaxOps == 4
\* largest maxElemsToParse and charThreshold given to New, and largest text
\* length an extraction attempt yields
MaxElemsToParse == 3
MaxCharThreshold == 3
MaxTextLength == 2

\* --------------------------------------------------------- program constants
Nil == 0
NotFound == 0
freeSlot == 0
elementNode == 1
textNode == 3
documentNode == 9
documentTypeNode == 10
flagStripUnlikelys == 1
flagWeightClasses == 2
flagCleanConditionally == 4
defaultMaxElemsToParse == 0
defaultCharThreshold == 500

Nodes == 1..(NumElems + NumTexts + NumFresh)

VARIABLES
  \* type Node: one function per field, indexed by node
  NodeType, LocalName, ParentNode, NextSibling, PreviousSibling,
  PreviousElementSibling, NextElementSibling, ChildNodes, Children,
  Body, DocumentElement,
  \* the text of a text node as it stands in the HTML source, a sequence of
  \* characters (see Letters below); empty on every other node
  innerHTML,
  \* the attributes of an element, a sequence of [name, value]
  Attributes,
  \* a call ended in a Go panic (the run stops there)
  panicked,
  \* the last tree call that was made: operation, receiver, arguments, the
  \* parent the new child had before the call (from), its place in
  \* n.ChildNodes before the call (at), returned node and error
  lastCall,
  \* number of tree calls made so far
  ops,
  \* where the program is: "tree" (tree calls only), "new" (before New),
  \* "ready" (New returned a Readability), "grab" (Parse is inside the loop
  \* of grabArticle), "done" (New failed, or Parse returned)
  pc,
  \* the arguments of New: the tokens of the HTML source, and the Options
  htmlSource, options,
  \* type Readability: doc, flags, attempts
  doc, flags, attempts,
  \* the attempts of grabArticle in the order they were made, each with the
  \* flags it ran with
  tried,
  \* what New or Parse returned
  result,
  \* for a run that applies one function or one pair of calls: what it was
  \* given (for a pair of calls, the fields of all nodes before the pair) and
  \* what it returned
  input, output

treeVars == <<NodeType, LocalName, ParentNode, NextSibling, PreviousSibling,
              PreviousElementSibling, NextElementSibling, ChildNodes,
              Children, Body, DocumentElement, innerHTML, Attributes, panicked,
              lastCall, ops>>

parseVars == <<pc, htmlSource, options, doc, flags, attempts, tried, result>>

fnVars == <<input, output>>

vars == <<treeVars, parseVars, fnVars>>

\* ------------------------------------------------------------------ helpers
\* the fields of all nodes as one value
Heap ==
  [NodeType |-> NodeType, LocalName |-> LocalName, ParentNode |-> ParentNode,
   NextSibling |-> NextSibling, PreviousSibling |-> PreviousSibling,
   PreviousElementSibling |-> PreviousElementSibling,
   NextElementSibling |-> NextElementSibling,
   ChildNodes |-> ChildNodes, Children |-> Children,
   Body |-> Body, DocumentElement |-> DocumentElement, innerHTML |-> innerHTML,
   Attributes |-> Attributes,
   panicked |-> panicked]

\* n.f = v
Set(h, f, n, v) == [h EXCEPT ![f][n] = v]

\* if n != nil { n.f = v }
SetIf(h, f, n, v) == IF n # Nil THEN [h EXCEPT ![f][n] = v] ELSE h

\* a runtime panic: index out of range, slice bounds out of range, nil dereference
Panic(h) == [h EXCEPT !.panicked = TRUE]

indexOf(el, a) ==
  IF \E i \in 1..Len(a) : a[i] = el
  THEN CHOOSE i \in 1..Len(a) : a[i] = el /\ \A j \in 1..(i - 1) : a[j] # el
  ELSE NotFound

delete(idx, a) == SubSeq(a, 1, idx - 1) \o SubSeq(a, idx + 1, Len(a))

insert(newNode, idx, nodes) ==
  SubSeq(nodes, 1, idx - 1) \o <<newNode>> \o SubSeq(nodes, idx, Len(nodes))

LastOf(a) == IF Len(a) = 0 THEN Nil ELSE a[Len(a)]

LastChild(h, n) == LastOf(h.ChildNodes[n])

\* ------------------------------------------------------------ Node.RemoveChild
\* prev.NextSibling = next; next.PreviousSibling = prev (each if not nil)
UnlinkForwardOnly(h, prev, next) == SetIf(h, "NextSibling", prev, next)

Unlink(h, prev, next) ==
  SetIf(SetIf(h, "NextSibling", prev, next), "PreviousSibling", next, prev)

UnlinkElement(h, prev, next) ==
  SetIf(SetIf(h, "NextElementSibling", prev, next), "PreviousElementSibling", next, prev)

\* n.Children = delete(indexOf(x, n.Children), n.Children)
DeleteFromChildren(h, n, x) ==
  IF indexOf(x, h.Children[n]) = NotFound THEN Panic(h)
  ELSE Set(h, "Children", n, delete(indexOf(x, h.Children[n]), h.Children[n]))

RemoveChildLinks(h, child) ==
  Unlink(Set(h, "ParentNode", child, Nil), h.PreviousSibling[child], h.NextSibling[child])

RemoveChildElement(h, n, child) ==
  IF h.NodeType[child] = elementNode
  THEN DeleteFromChildren(
         UnlinkElement(h, h.PreviousElementSibling[child], h.NextElementSibling[child]),
         n, child)
  ELSE h

ClearSiblings(h, x) == Set(Set(h, "PreviousSibling", x, Nil), "NextSibling", x, Nil)

ClearElementSiblings(h, x) ==
  Set(Set(h, "PreviousElementSibling", x, Nil), "NextElementSibling", x, Nil)

RemoveChildFinish(h, n, child, childIndex) ==
  IF h.panicked THEN h
  ELSE Set(ClearElementSiblings(ClearSiblings(h, child), child),
           "ChildNodes", n, delete(childIndex, h.ChildNodes[n]))

RemoveChild(h, n, child) ==
  IF indexOf(child, h.ChildNodes[n]) = NotFound
  THEN [h |-> h, ret |-> Nil, err |-> TRUE]
  ELSE [h |-> RemoveChildFinish(RemoveChildElement(RemoveChildLinks(h, child), n, child),
                                n, child, indexOf(child, h.ChildNodes[n])),
        ret |-> child, err |-> FALSE]

\* ------------------------------------------------------------ Node.AppendChild
\* if x.ParentNode != nil { x.ParentNode.RemoveChild(x) }; an error is logged
DetachFromParent(h, x) ==
  IF h.ParentNode[x] # Nil THEN RemoveChild(h, h.ParentNode[x], x).h ELSE h

AppendChildLinks(h, n, child) ==
  Set(SetIf(h, "NextSibling", LastChild(h, n), child),
      "PreviousSibling", child, LastChild(h, n))

AppendChildPrevElement(h, n, child) ==
  IF Len(h.Children[n]) # 0
  THEN Set(h, "PreviousElementSibling", child, LastOf(h.Children[n]))
  ELSE h

AppendToChildren(h, n, child) == Set(h, "Children", n, Append(h.Children[n], child))

AppendChildNextElement(h, child) ==
  SetIf(h, "NextElementSibling", h.PreviousElementSibling[child], child)

AppendChildElement(h, n, child) ==
  IF h.NodeType[child] = elementNode
  THEN AppendChildNextElement(
         AppendToChildren(AppendChildPrevElement(h, n, child), n, child), child)
  ELSE h

AppendChildFinish(h, n, child) ==
  Set(Set(h, "ChildNodes", n, Append(h.ChildNodes[n], child)), "ParentNode", child, n)

AppendChildDetached(h, n, child) ==
  IF h.panicked THEN h
  ELSE AppendChildFinish(AppendChildElement(AppendChildLinks(h, n, child), n, child),
                         n, child)

AppendChildNoDetach(h, n, child) == AppendChildDetached(h, n, child)

AppendChild(h, n, child) == AppendChildDetached(DetachFromParent(h, child), n, child)

\* ----------------------------------------------------------- Node.ReplaceChild
\* the two closures of ReplaceChild: the nearest element before, and after,
\* position idx of the local slice; reading the NodeType of a nil entry panics
ScanBack(h, a, idx) ==
  LET stops == {j \in 1..(idx - 1) : a[j] = Nil \/ h.NodeType[a[j]] = elementNode} IN
  IF stops = {} THEN [node |-> Nil, panic |-> FALSE]
  ELSE LET j == CHOOSE x \in stops : \A y \in stops : y <= x IN
       [node |-> a[j], panic |-> a[j] = Nil]

ScanForward(h, a, idx) ==
  LET stops == {j \in (idx + 1)..Len(a) : a[j] = Nil \/ h.NodeType[a[j]] = elementNode} IN
  IF stops = {} THEN [node |-> Nil, panic |-> FALSE]
  ELSE LET j == CHOOSE x \in stops : \A y \in stops : x <= y IN
       [node |-> a[j], panic |-> a[j] = Nil]

\* if x.PreviousElementSibling != nil { x.PreviousElementSibling.NextElementSibling = x }
LinkPrevElement(h, x) == SetIf(h, "NextElementSibling", h.PreviousElementSibling[x], x)

\* if x.NextElementSibling != nil { x.NextElementSibling.PreviousElementSibling = x }
LinkNextElement(h, x) == SetIf(h, "PreviousElementSibling", h.NextElementSibling[x], x)

LinkElementNeighbours(h, x) == LinkNextElement(LinkPrevElement(h, x), x)

\* n.Children[indexOf(oldNode, n.Children)] = newNode
SwapInChildren(h, n, newNode, oldNode) ==
  IF indexOf(oldNode, h.Children[n]) = NotFound THEN Panic(h)
  ELSE Set(h, "Children", n,
           [h.Children[n] EXCEPT ![indexOf(oldNode, h.Children[n])] = newNode])

CopyPrevElement(h, newNode, oldNode) ==
  Set(h, "PreviousElementSibling", newNode, h.PreviousElementSibling[oldNode])

CopyNextElement(h, newNode, oldNode) ==
  Set(h, "NextElementSibling", newNode, h.NextElementSibling[oldNode])

\* newNode and oldNode are both elements
ReplaceElementByElement(h, n, newNode, oldNode) ==
  SwapInChildren(
    LinkElementNeighbours(
      CopyNextElement(CopyPrevElement(h, newNode, oldNode), newNode, oldNode), newNode),
    n, newNode, oldNode)

\* newNode.NextElementSibling, once newNode.PreviousElementSibling is set
HardWayNext(h, newNode, childIndex, childNodes) ==
  IF h.PreviousElementSibling[newNode] # Nil
  THEN Set(h, "NextElementSibling", newNode,
           h.NextElementSibling[h.PreviousElementSibling[newNode]])
  ELSE IF ScanForward(h, childNodes, childIndex).panic THEN Panic(h)
       ELSE Set(h, "NextElementSibling", newNode,
                ScanForward(h, childNodes, childIndex).node)

\* insert newNode before its next element sibling, or append it
HardWayChildren(h, n, newNode) ==
  IF h.NextElementSibling[newNode] # Nil
  THEN IF indexOf(h.NextElementSibling[newNode], h.Children[n]) = NotFound
       THEN Panic(h)
       ELSE Set(h, "Children", n,
                insert(newNode, indexOf(h.NextElementSibling[newNode], h.Children[n]),
                       h.Children[n]))
  ELSE Set(h, "Children", n, Append(h.Children[n], newNode))

HardWayLinked(h, n, newNode) ==
  IF h.panicked THEN h ELSE HardWayChildren(LinkElementNeighbours(h, newNode), n, newNode)

\* newNode is an element, oldNode is not ("Hard way"); childNodes is the local
\* slice of ReplaceChild
ReplaceOtherByElement(h, n, newNode, childIndex, childNodes) ==
  IF ScanBack(h, childNodes, childIndex).panic THEN Panic(h)
  ELSE HardWayLinked(
         HardWayNext(Set(h, "PreviousElementSibling", newNode,
                         ScanBack(h, childNodes, childIndex).node),
                     newNode, childIndex, childNodes),
         n, newNode)

\* oldNode is an element, newNode is not: the element neighbours of oldNode
\* are linked to each other, one assignment after the other
ReplaceElementByOtherNext(h, oldNode) ==
  SetIf(h, "NextElementSibling", h.PreviousElementSibling[oldNode],
        h.NextElementSibling[oldNode])

ReplaceElementByOtherPrev(h, oldNode) ==
  SetIf(h, "PreviousElementSibling", h.NextElementSibling[oldNode],
        h.PreviousElementSibling[oldNode])

ReplaceElementByOther(h, n, oldNode) ==
  DeleteFromChildren(
    ReplaceElementByOtherPrev(ReplaceElementByOtherNext(h, oldNode), oldNode),
    n, oldNode)

\* childNodes[childIndex] = newNode.  The local slice childNodes was taken
\* before newNode left its old parent.  RemoveChild deletes in place, so when
\* that parent is n itself the local slice keeps its old length oldLen over
\* the shifted backing array (its last entry nil), and childIndex still is the
\* position oldNode had before.
LocalChildNodes(h, n, newNode, childIndex, oldLen) ==
  [h.ChildNodes[n] \o [i \in 1..(oldLen - Len(h.ChildNodes[n])) |-> Nil]
     EXCEPT ![childIndex] = newNode]

ReplaceChildStore(h, n, newNode, childIndex, oldLen) ==
  Set(h, "ChildNodes", n,
      SubSeq(LocalChildNodes(h, n, newNode, childIndex, oldLen), 1, Len(h.ChildNodes[n])))

ReplaceChildNext(h, newNode, oldNode) ==
  Set(h, "NextSibling", newNode, h.NextSibling[oldNode])

ReplaceChildPrev(h, newNode, oldNode) ==
  Set(h, "PreviousSibling", newNode, h.PreviousSibling[oldNode])

ReplaceChildNextBack(h, newNode) ==
  SetIf(h, "PreviousSibling", h.NextSibling[newNode], newNode)

ReplaceChildPrevBack(h, newNode) ==
  SetIf(h, "NextSibling", h.PreviousSibling[newNode], newNode)

ReplaceChildLinks(h, n, newNode, oldNode) ==
  Set(ReplaceChildPrevBack(
        ReplaceChildNextBack(
          ReplaceChildPrev(ReplaceChildNext(h, newNode, oldNode), newNode, oldNode),
          newNode),
        newNode),
      "ParentNode", newNode, n)

ReplaceChildElements(h, n, newNode, oldNode, childIndex, childNodes) ==
  IF h.NodeType[newNode] = elementNode
  THEN IF h.NodeType[oldNode] = elementNode
       THEN ReplaceElementByElement(h, n, newNode, oldNode)
       ELSE ReplaceOtherByElement(h, n, newNode, childIndex, childNodes)
  ELSE IF h.NodeType[oldNode] = elementNode
       THEN ReplaceElementByOther(h, n, oldNode)
       ELSE h

ReplaceChildClearOldSiblingsOnly(h, oldNode) ==
  IF h.panicked THEN h
  ELSE ClearSiblings(Set(h, "ParentNode", oldNode, Nil), oldNode)

ReplaceChildClearOld(h, oldNode) ==
  IF h.panicked THEN h
  ELSE IF h.NodeType[oldNode] = elementNode
       THEN ClearElementSiblings(ClearSiblings(Set(h, "ParentNode", oldNode, Nil), oldNode),
                                 oldNode)
       ELSE ClearSiblings(Set(h, "ParentNode", oldNode, Nil), oldNode)

\* from childNodes[childIndex] = newNode on; h holds the nodes after newNode
\* left its old parent
ReplaceChildDetached(h, n, newNode, oldNode, childIndex, oldLen) ==
  IF h.panicked THEN h
  ELSE ReplaceChildClearOld(
         ReplaceChildElements(
           ReplaceChildLinks(ReplaceChildStore(h, n, newNode, childIndex, oldLen),
                             n, newNode, oldNode),
           n, newNode, oldNode, childIndex,
           LocalChildNodes(h, n, newNode, childIndex, oldLen)),
         oldNode)

ReplaceChild(h, n, newNode, oldNode) ==
  IF indexOf(oldNode, h.ChildNodes[n]) = NotFound THEN Panic(h)
  ELSE ReplaceChildDetached(DetachFromParent(h, newNode), n, newNode, oldNode,
                            indexOf(oldNode, h.ChildNodes[n]), Len(h.ChildNodes[n]))

\* ------------------------------------------------------------------- parser
\* The input of the parser is the token sequence html.Tokenizer yields for
\* the source text; the empty text yields no token.  <title> and <head> are
\* recorded by the parser too, but nothing modelled here reads them.
StartTagToken == "StartTag"
SelfClosingTagToken == "SelfClosingTag"
EndTagToken == "EndTag"
TextToken == "Text"
CommentToken == "Comment"
DoctypeToken == "Doctype"

Tok(tt, data) == [tt |-> tt, data |-> data, attr |-> <<>>]

\* a tag token with its attributes
TagTok(tt, data, attr) == [tt |-> tt, data |-> data, attr |-> attr]

\* ---------------------------------------------------------- html.Tokenizer
\* The HTML text is a sequence of characters.  A character is one of the
\* marks '<', '>', '/' and '!', or a run of letters (a name or a word); "<!"
\* opens a markup declaration that is neither "<!--" nor a DOCTYPE nor a
\* CDATA section, so it is a comment up to the next '>'.  White space, digits,
\* quotes are left out; an attribute of a tag, name and
\* quoted value, is one character of its own.
Letters == {"html", "body", "div", "script", "noscript", "style", "x", "img",
            "section", "p", "br", "head"}

\* the attributes that are written in the model's documents
AttrTexts ==
  {[text |-> "src=real.jpg", name |-> "src", value |-> "real.jpg"],
   [text |-> "src=p.jpg", name |-> "src", value |-> "p.jpg"],
   [text |-> "src=", name |-> "src", value |-> ""],
   [text |-> "data-src=lazy.jpg", name |-> "data-src", value |-> "lazy.jpg"],
   [text |-> "data-old-src=p.jpg", name |-> "data-old-src", value |-> "p.jpg"],
   [text |-> "class=lazy", name |-> "class", value |-> "lazy"],
   [text |-> "class=page", name |-> "class", value |-> "page"],
   [text |-> "id=readability-page-1", name |-> "id", value |-> "readability-page-1"],
   [text |-> "alt=a.png", name |-> "alt", value |-> "a.png"]}

AttrChars == {a.text : a \in AttrTexts}

\* the attribute a character stands for, and the character of an attribute
AttrOf(c) == [name |-> (CHOOSE a \in AttrTexts : a.text = c).name,
              value |-> (CHOOSE a \in AttrTexts : a.text = c).value]

AttrText(attr) ==
  (CHOOSE a \in AttrTexts : a.name = attr.name /\ a.value = attr.value).text

\* Token.Attr of the tag whose attributes stand from i to j
RECURSIVE AttrsAt(_, _, _)
AttrsAt(s, i, j) ==
  IF i > j THEN <<>>
  ELSE IF s[i] \in AttrChars THEN <<AttrOf(s[i])>> \o AttrsAt(s, i + 1, j)
  ELSE AttrsAt(s, i + 1, j)

\* the tags after which the tokenizer reads raw text up to their end tag
RawTags == {"iframe", "noembed", "noframes", "noscript", "script", "style",
            "textarea", "title", "xmp"}

\* the first position from i on that holds c; Len(s) + 1 when there is none
IndexFrom(s, i, c) ==
  IF \E k \in i..Len(s) : s[k] = c
  THEN CHOOSE k \in i..Len(s) : s[k] = c /\ \A j \in i..(k - 1) : s[j] # c
  ELSE Len(s) + 1

\* '<' opens a tag or a comment when a letter, '/' or '!' follows it
IsTagOpen(s, k) == s[k] = "<" /\ k < Len(s) /\ s[k + 1] \in Letters \cup {"/", "!"}

\* where the text that begins at i ends
TextEnd(s, i) ==
  IF \E k \in i..Len(s) : IsTagOpen(s, k)
  THEN CHOOSE k \in i..Len(s) : IsTagOpen(s, k) /\ \A j \in i..(k - 1) : ~IsTagOpen(s, j)
  ELSE Len(s) + 1

IsRawEnd(s, k, rawTag) ==
  /\ k + 3 <= Len(s)
  /\ s[k] = "<" /\ s[k + 1] = "/" /\ s[k + 2] = rawTag /\ s[k + 3] \in {"/", ">"}

\* where the raw text that begins at i ends: before the end tag of rawTag
RawEnd(s, i, rawTag) ==
  IF \E k \in i..Len(s) : IsRawEnd(s, k, rawTag)
  THEN CHOOSE k \in i..Len(s) :
         IsRawEnd(s, k, rawTag) /\ \A j \in i..(k - 1) : ~IsRawEnd(s, j, rawTag)
  ELSE Len(s) + 1

\* the name of the tag whose name begins at i: it runs up to '/', '>' or an
\* attribute, and a name of several runs is none of the names the program
\* asks for
TagNameAt(s, i) ==
  IF i < Len(s) /\ s[i + 1] \in {"/", ">"} \cup AttrChars THEN s[i] ELSE "other"

\* the raw text mode after a tag: readNode calls NextIsNotRawText after the
\* start tag of script and noscript, and after no other tag
RawAfter(tt, name) ==
  IF name \in RawTags /\ ~(tt = StartTagToken /\ name \in {"script", "noscript"})
  THEN name ELSE ""

TagTypeAt(s, m) == IF s[m - 1] = "/" THEN SelfClosingTagToken ELSE StartTagToken

RECURSIVE Tokens(_, _, _)

\* a start tag that is closed at m; a tag the input ends in is an ErrorToken,
\* which ends the parse
StartTagAt(s, i, m) ==
  IF m > Len(s) THEN <<>>
  ELSE <<TagTok(TagTypeAt(s, m), TagNameAt(s, i + 1), AttrsAt(s, i + 2, m - 1))>>
         \o Tokens(s, m + 1, RawAfter(TagTypeAt(s, m), TagNameAt(s, i + 1)))

EndTagAt(s, i, m) ==
  IF m > Len(s) THEN <<>>
  ELSE <<Tok(EndTagToken, TagNameAt(s, i + 2))>> \o Tokens(s, m + 1, "")

CommentAt(s, m) == <<Tok(CommentToken, "")>> \o Tokens(s, m + 1, "")

\* the token that begins with the '<' at i
MarkupAt(s, i) ==
  IF s[i + 1] \in Letters THEN StartTagAt(s, i, IndexFrom(s, i + 2, ">"))
  ELSE IF s[i + 1] = "!" THEN CommentAt(s, IndexFrom(s, i + 2, ">"))
  ELSE IF i + 2 > Len(s) THEN <<Tok(TextToken, SubSeq(s, i, i + 1))>>
  ELSE IF s[i + 2] = ">" THEN CommentAt(s, i + 2)
  ELSE IF s[i + 2] \in Letters THEN EndTagAt(s, i, IndexFrom(s, i + 3, ">"))
  ELSE CommentAt(s, IndexFrom(s, i + 2, ">"))

TextAt(s, i, j) == <<Tok(TextToken, SubSeq(s, i, j - 1))>> \o Tokens(s, j, "")

\* the tokens Tokenizer.Next yields from position i on, rawTag being the tag
\* whose raw text is being read ("" for none)
Tokens(s, i, rawTag) ==
  IF i > Len(s) THEN <<>>
  ELSE IF rawTag # "" /\ RawEnd(s, i, rawTag) > i THEN TextAt(s, i, RawEnd(s, i, rawTag))
  ELSE IF IsTagOpen(s, i) THEN MarkupAt(s, i)
  ELSE TextAt(s, i, TextEnd(s, i))

\* html.NewTokenizer(strings.NewReader(htmlSrc)) and the calls of Next
Tokenize(s) == Tokens(s, 1, "")

FreeSlots(h) == {n \in DOMAIN h.NodeType : h.NodeType[n] = freeSlot}

\* the slot a new node takes: the lowest free one
NewNode(h) == CHOOSE n \in FreeSlots(h) : \A m \in FreeSlots(h) : n <= m

\* newElement, newText, newDocument: a node with no link and no child
Allocate(h, n, type, name) ==
  [h EXCEPT !.NodeType[n] = type, !.LocalName[n] = name,
            !.ParentNode[n] = Nil, !.NextSibling[n] = Nil,
            !.PreviousSibling[n] = Nil, !.PreviousElementSibling[n] = Nil,
            !.NextElementSibling[n] = Nil, !.ChildNodes[n] = <<>>,
            !.Children[n] = <<>>, !.Body[n] = Nil, !.DocumentElement[n] = Nil,
            !.innerHTML[n] = <<>>, !.Attributes[n] = <<>>]

\* ps is the parser: the nodes built so far (h), the document (doc) and the
\* position of the tokenizer (pos)
Advance(ps) == [ps EXCEPT !.pos = @ + 1]

\* n.AppendChild(a new node of the given type)
AppendNew(ps, n, type, node) ==
  [ps EXCEPT !.h = AppendChild(Allocate(ps.h, node, type, ""), n, node)]

\* newText, SetInnerHTML(txt) and n.AppendChild, for a text that does not
\* begin with '<'; any other text is dropped (CDATA sections are left out)
ReadText(ps, n, tok, node) ==
  IF Head(tok.data) # "<"
  THEN [ps EXCEPT !.h = AppendChild(Set(Allocate(ps.h, node, textNode, ""),
                                        "innerHTML", node, tok.data), n, node)]
  ELSE ps

\* Node.SetAttribute on the attributes of a node
SetAttributeAt(attrs, name, value) ==
  IF \E i \in 1..Len(attrs) : attrs[i].name = name
  THEN [i \in 1..Len(attrs) |->
          IF attrs[i].name = name THEN [name |-> name, value |-> value] ELSE attrs[i]]
  ELSE Append(attrs, [name |-> name, value |-> value])

RECURSIVE SetAttributes(_, _, _)
SetAttributes(attrs, tokenAttr, i) ==
  IF i > Len(tokenAttr) THEN attrs
  ELSE SetAttributes(SetAttributeAt(attrs, tokenAttr[i].name, tokenAttr[i].value),
                     tokenAttr, i + 1)

\* makeElementNode: newElement(tag) and SetAttribute for every token attribute
MakeElementNode(ps, tok, node) ==
  [ps EXCEPT !.h = Set(Allocate(ps.h, node, elementNode, tok.data),
                       "Attributes", node, SetAttributes(<<>>, tok.attr, 1))]

\* the element's parser fields: body and html are recorded on the document
RecordElement(ps, tok, node) ==
  IF tok.data = "body" THEN [ps EXCEPT !.h.Body[ps.doc] = node]
  ELSE IF tok.data = "html" THEN [ps EXCEPT !.h.DocumentElement[ps.doc] = node]
  ELSE ps

AppendParsed(ps, n, node) == [ps EXCEPT !.h = AppendChild(ps.h, n, node)]

RECURSIVE readNode(_, _, _)

\* a start tag reads the element's children, a self-closing tag does not
ReadChildren(ps, src, tok, node) ==
  IF tok.tt = StartTagToken THEN readNode(ps, src, node) ELSE ps

ReadElement(ps, src, n, tok, node) ==
  AppendParsed(
    RecordElement(ReadChildren(MakeElementNode(ps, tok, node), src, tok, node), tok, node),
    n, node)

ReadToken(ps, src, n, tok) ==
  IF tok.tt = DoctypeToken
  THEN readNode(AppendNew(Advance(ps), n, documentTypeNode, NewNode(ps.h)), src, n)
  ELSE IF tok.tt = CommentToken
  THEN readNode(Advance(ps), src, n)
  ELSE IF tok.tt = TextToken
  THEN readNode(ReadText(Advance(ps), n, tok, NewNode(ps.h)), src, n)
  ELSE IF tok.tt = StartTagToken \/ tok.tt = SelfClosingTagToken
  THEN readNode(ReadElement(Advance(ps), src, n, tok, NewNode(ps.h)), src, n)
  ELSE \* EndTagToken
    IF ps.h.LocalName[n] = tok.data THEN Advance(ps) ELSE readNode(Advance(ps), src, n)

\* domParser.readNode(n); the end of the input ends the loop at every level
readNode(ps, src, n) ==
  IF ps.pos > Len(src) THEN ps ELSE ReadToken(ps, src, n, src[ps.pos])

\* the loop that ends domParser.parse: from the last root-level child to the
\* first, remove every child of the document but <html>
RECURSIVE RemoveRootLevel(_, _, _)
RemoveRootLevel(h, d, i) ==
  IF i < 1 THEN h
  ELSE RemoveRootLevel(IF h.ChildNodes[d][i] # h.DocumentElement[d]
                       THEN RemoveChild(h, d, h.ChildNodes[d][i]).h ELSE h,
                       d, i - 1)

parseRead(h, src, d) ==
  readNode([h |-> Allocate(h, d, documentNode, ""), doc |-> d, pos |-> 1], src, d)

parseFinish(ps) ==
  [h |-> IF ps.h.DocumentElement[ps.doc] # Nil
         THEN RemoveRootLevel(ps.h, ps.doc, Len(ps.h.ChildNodes[ps.doc]))
         ELSE ps.h,
   doc |-> ps.doc]

\* domParser.parse: the nodes with the new document among them, and the document
parse(h, src) == parseFinish(parseRead(h, src, NewNode(h)))

\* nodes a parse of src allocates at most: the document and one per token
NodesNeeded(src) == Len(src) + 1

\* ---------------------------------------- Node.SetInnerHTML, SetTextContent
\* for i := len(a) - 1; i >= 0; i-- { a[i].ParentNode = p }
RECURSIVE SetParents(_, _, _, _)
SetParents(h, a, i, p) ==
  IF i < 1 THEN h ELSE SetParents(Set(h, "ParentNode", a[i], p), a, i - 1, p)

OrphanChildren(h, n) == SetParents(h, h.ChildNodes[n], Len(h.ChildNodes[n]), Nil)

TakeLists(h, n, d) ==
  Set(Set(h, "ChildNodes", n, h.ChildNodes[d]), "Children", n, h.Children[d])

AdoptChildren(h, n) == SetParents(h, h.ChildNodes[n], Len(h.ChildNodes[n]), n)

\* the temporary document of the parse is dropped when SetInnerHTML returns:
\* nothing refers to it, and its slot is free again
DropDocument(h, d) == Allocate(h, d, freeSlot, "")

SetInnerHTMLParsed(r, n) ==
  DropDocument(AdoptChildren(TakeLists(OrphanChildren(r.h, n), n, r.doc), n), r.doc)

SetInnerHTML(h, n, src) ==
  IF h.NodeType[n] = elementNode THEN SetInnerHTMLParsed(parse(h, src), n) ELSE h

SetTextContentNew(h, n, t) ==
  Set(Set(Set(Allocate(h, t, textNode, ""), "ChildNodes", n, <<t>>),
          "Children", n, <<>>),
      "ParentNode", t, n)

SetTextContent(h, n) ==
  IF h.NodeType[n] = elementNode
  THEN SetTextContentNew(OrphanChildren(h, n), n, NewNode(h))
  ELSE h

\* ---------------------------------------------------------- Node.GetInnerHTML
voidElems == {"area", "base", "br", "col", "command", "embed", "hr", "img",
              "input", "link", "meta", "param", "source", "wbr"}

RECURSIVE getHTML(_, _, _)

\* an element is written as its tags around its children, a text node as
\* its innerHTML
getHTMLAttributes(attrs) == [j \in 1..Len(attrs) |-> AttrText(attrs[j])]

getHTMLChild(h, child) ==
  IF h.LocalName[child] # ""
  THEN IF h.LocalName[child] \in voidElems /\ h.ChildNodes[child] = <<>>
       THEN <<"<", h.LocalName[child]>> \o getHTMLAttributes(h.Attributes[child])
              \o <<"/", ">">>
       ELSE <<"<", h.LocalName[child]>> \o getHTMLAttributes(h.Attributes[child])
              \o <<">">> \o getHTML(h, h.ChildNodes[child], 1)
              \o <<"<", "/", h.LocalName[child], ">">>
  ELSE h.innerHTML[child]

getHTML(h, a, i) ==
  IF i > Len(a) THEN <<>> ELSE getHTMLChild(h, a[i]) \o getHTML(h, a, i + 1)

GetInnerHTML(h, n) ==
  IF h.NodeType[n] = textNode THEN h.innerHTML[n] ELSE getHTML(h, h.ChildNodes[n], 1)

\* --------------------------------------------------- the tree and its calls
InitTree ==
  /\ NodeType = [n \in Nodes |->
                   IF n <= NumElems THEN elementNode
                   ELSE IF n <= NumElems + NumTexts THEN textNode ELSE freeSlot]
  /\ LocalName = [n \in Nodes |-> IF n <= NumElems THEN "div" ELSE ""]
  /\ ParentNode = [n \in Nodes |-> Nil]
  /\ NextSibling = [n \in Nodes |-> Nil]
  /\ PreviousSibling = [n \in Nodes |-> Nil]
  /\ PreviousElementSibling = [n \in Nodes |-> Nil]
  /\ NextElementSibling = [n \in Nodes |-> Nil]
  /\ ChildNodes = [n \in Nodes |-> <<>>]
  /\ Children = [n \in Nodes |-> <<>>]
  /\ Body = [n \in Nodes |-> Nil]
  /\ DocumentElement = [n \in Nodes |-> Nil]
  /\ innerHTML = [n \in Nodes |-> <<>>]
  /\ Attributes = [n \in Nodes |-> <<>>]
  /\ panicked = FALSE
  /\ lastCall = [op |-> "none", n |-> Nil, child |-> Nil, old |-> Nil,
                 from |-> Nil, at |-> NotFound, ret |-> Nil, err |-> FALSE]
  /\ ops = 0
  /\ pc = "tree"
  /\ htmlSource = <<>>
  /\ options = [maxElemsToParse |-> defaultMaxElemsToParse,
                charThreshold |-> defaultCharThreshold]
  /\ doc = Nil
  /\ flags = 0
  /\ attempts = <<>>
  /\ tried = <<>>
  /\ result = [value |-> "none", err |-> "", articleContent |-> Nil]
  /\ input = <<>>
  /\ output = <<>>

\* the fields of all nodes become those of h
Store(h) ==
  /\ NodeType' = h.NodeType
  /\ LocalName' = h.LocalName
  /\ ParentNode' = h.ParentNode
  /\ NextSibling' = h.NextSibling
  /\ PreviousSibling' = h.PreviousSibling
  /\ PreviousElementSibling' = h.PreviousElementSibling
  /\ NextElementSibling' = h.NextElementSibling
  /\ ChildNodes' = h.ChildNodes
  /\ Children' = h.Children
  /\ Body' = h.Body
  /\ DocumentElement' = h.DocumentElement
  /\ innerHTML' = h.innerHTML
  /\ Attributes' = h.Attributes
  /\ panicked' = h.panicked

Live == {n \in Nodes : NodeType[n] # freeSlot}
Elements == {n \in Nodes : NodeType[n] = elementNode}

\* n and the nodes above it, following ParentNode
RECURSIVE UpChain(_, _)
UpChain(n, k) == IF n = Nil \/ k = 0 THEN {} ELSE {n} \cup UpChain(ParentNode[n], k - 1)
InclusiveAncestors(n) == UpChain(n, Cardinality(Nodes))

Called(op, n, child, old, ret, err) ==
  /\ lastCall' = [op |-> op, n |-> n, child |-> child, old |-> old,
                  from |-> IF child = Nil THEN Nil ELSE ParentNode[child],
                  at |-> IF child = Nil THEN NotFound ELSE indexOf(child, ChildNodes[n]),
                  ret |-> ret, err |-> err]
  /\ ops' = ops + 1
  /\ UNCHANGED <<parseVars, fnVars>>

\* The callers put a node under another one only where that keeps a tree: a
\* node is never made a child of itself or of one of its descendants.
CallAppendChild(n, child) ==
  /\ pc = "tree" /\ ~panicked /\ ops < MaxOps
  /\ child \notin InclusiveAncestors(n)
  /\ Store(AppendChild(Heap, n, child))
  /\ Called("AppendChild", n, child, Nil, Nil, FALSE)

CallRemoveChildResult(r, n, child) ==
  /\ Store(r.h)
  /\ Called("RemoveChild", n, child, Nil, r.ret, r.err)

CallRemoveChild(n, child) ==
  /\ pc = "tree" /\ ~panicked /\ ops < MaxOps
  /\ CallRemoveChildResult(RemoveChild(Heap, n, child), n, child)

CallReplaceChild(n, newNode, oldNode) ==
  /\ pc = "tree" /\ ~panicked /\ ops < MaxOps
  /\ newNode \notin InclusiveAncestors(n)
  /\ Store(ReplaceChild(Heap, n, newNode, oldNode))
  /\ Called("ReplaceChild", n, newNode, oldNode, oldNode, FALSE)

\* the token sequences given to SetInnerHTML
InnerSources ==
  { <<>>, <<Tok(TextToken, <<"x">>)>>, <<Tok(SelfClosingTagToken, "br")>>,
    <<Tok(StartTagToken, "p"), Tok(TextToken, <<"x">>)>>,
    <<Tok(TextToken, <<"x">>), Tok(SelfClosingTagToken, "br")>> }

CallSetInnerHTML(n, src) ==
  /\ pc = "tree" /\ ~panicked /\ ops < MaxOps
  /\ Cardinality(FreeSlots(Heap)) >= NodesNeeded(src)
  /\ Store(SetInnerHTML(Heap, n, src))
  /\ Called("SetInnerHTML", n, Nil, Nil, Nil, FALSE)

CallSetTextContent(n) ==
  /\ pc = "tree" /\ ~panicked /\ ops < MaxOps
  /\ FreeSlots(Heap) # {}
  /\ Store(SetTextContent(Heap, n))
  /\ Called("SetTextContent", n, Nil, Nil, Nil, FALSE)

NextTree ==
  \/ \E n \in Elements, child \in Live : CallAppendChild(n, child)
  \/ \E n \in Elements, child \in Live : CallRemoveChild(n, child)
  \/ \E n \in Elements, newNode \in Live, oldNode \in Live :
       CallReplaceChild(n, newNode, oldNode)

SpecTree == InitTree /\ [][NextTree]_vars

\* The tree calls as the extraction makes them: every ReplaceChild call of
\* readability.go is made on the parent of the replaced node, and puts there
\* a node that is not a child of that parent (a node just created, a node
\* below the replaced node, or a node of another tree).
CallReplaceChildByOther(n, newNode, oldNode) ==
  /\ ParentNode[oldNode] = n
  /\ ParentNode[newNode] # n
  /\ CallReplaceChild(n, newNode, oldNode)

NextCallers ==
  \/ \E n \in Elements, child \in Live : CallAppendChild(n, child)
  \/ \E n \in Elements, child \in Live : CallRemoveChild(n, child)
  \/ \E n \in Elements, newNode \in Live, oldNode \in Live :
       CallReplaceChildByOther(n, newNode, oldNode)

SpecCallers == InitTree /\ [][NextCallers]_vars

NextTreeSet ==
  \/ NextTree
  \/ \E n \in Live, src \in InnerSources : CallSetInnerHTML(n, src)
  \/ \E n \in Live : CallSetTextContent(n)

SpecTreeSet == InitTree /\ [][NextTreeSet]_vars

\* ---------------------------------------- a ReplaceChild call and its reverse
\* n.ReplaceChild(newNode, oldNode) on a tree built by AppendChild calls, with
\* a detached element as newNode, followed by n.ReplaceChild(oldNode, newNode)
CallReplaceForward(n, newNode, oldNode) ==
  /\ pc = "tree" /\ ~panicked
  /\ ParentNode[oldNode] = n
  /\ NodeType[newNode] = elementNode /\ ParentNode[newNode] = Nil
  /\ newNode \notin InclusiveAncestors(n)
  /\ Store(ReplaceChild(Heap, n, newNode, oldNode))
  /\ lastCall' = [op |-> "ReplaceChild", n |-> n, child |-> newNode, old |-> oldNode,
                  from |-> Nil, at |-> NotFound, ret |-> oldNode, err |-> FALSE]
  /\ input' = Heap
  /\ pc' = "replaced"
  /\ UNCHANGED <<ops, htmlSource, options, doc, flags, attempts, tried, result, output>>

CallReplaceBack ==
  /\ pc = "replaced" /\ ~panicked
  /\ Store(ReplaceChild(Heap, lastCall.n, lastCall.old, lastCall.child))
  /\ lastCall' = [op |-> "ReplaceChild", n |-> lastCall.n, child |-> lastCall.old,
                  old |-> lastCall.child, from |-> Nil, at |-> NotFound,
                  ret |-> lastCall.child, err |-> FALSE]
  /\ pc' = "restored"
  /\ UNCHANGED <<ops, htmlSource, options, doc, flags, attempts, tried, result, fnVars>>

NextReplaceTwice ==
  \/ \E n \in Elements, child \in Live : CallAppendChild(n, child)
  \/ \E n \in Elements, newNode \in Elements, oldNode \in Live :
       CallReplaceForward(n, newNode, oldNode)
  \/ CallReplaceBack

SpecReplaceTwice == InitTree /\ [][NextReplaceTwice]_vars

\* ------------------------------------------- Node.getElementsByTagName
\* the elements below n with the given tag ("*": all), in document order;
\* TagName is the upper case of LocalName, and tag is compared in upper case
RECURSIVE getElems(_, _, _)
RECURSIVE getElemsLoop(_, _, _, _)
getElemsLoop(h, a, i, tag) ==
  IF i > Len(a) THEN <<>>
  ELSE (IF tag = "*" \/ h.LocalName[a[i]] = tag THEN <<a[i]>> ELSE <<>>)
         \o getElems(h, a[i], tag) \o getElemsLoop(h, a, i + 1, tag)

getElems(h, from, tag) == getElemsLoop(h, h.Children[from], 1, tag)

getElementsByTagName(h, n, tag) == getElems(h, n, tag)

\* ------------------------------------------------- Readability.removeScripts
getAllNodesWithTag(h, n, tag1, tag2) ==
  getElementsByTagName(h, n, tag1) \o getElementsByTagName(h, n, tag2)

\* removeNodes(nodeList, nil), from the last node of the list to the first
RECURSIVE removeNodes(_, _, _)
removeNodes(h, nodeList, i) ==
  IF i < 1 THEN h
  ELSE removeNodes(IF h.ParentNode[nodeList[i]] # Nil
                   THEN RemoveChild(h, h.ParentNode[nodeList[i]], nodeList[i]).h
                   ELSE h,
                   nodeList, i - 1)

removeScriptNodes(h, nodeList) == removeNodes(h, nodeList, Len(nodeList))

removeScripts(h, d) == removeScriptNodes(h, getAllNodesWithTag(h, d, "script", "noscript"))

\* ------------------------------------------------------------ New and Parse
\* the four errors of New and Parse, by their message
errEmptyInput == "first argument to Readability constructor should be a HTML document"
errParseFailure == "cannot parse doc"
errDocumentTooLarge == "aborting parsing document"
errExtractionFailed == "cannot grab article"

\* a & b on the bits of two non-negative integers
RECURSIVE BitAnd(_, _)
BitAnd(a, b) ==
  IF a = 0 \/ b = 0 THEN 0
  ELSE (a % 2) * (b % 2) + 2 * BitAnd(a \div 2, b \div 2)

flagIsActive(fl, flag) == BitAnd(fl, flag) > 0

removeFlagNoComplement(fl, flag) == BitAnd(fl, flag)

\* r.flags & ^flag
removeFlag(fl, flag) == fl - BitAnd(fl, flag)

NewParsedAnyDocument(p, h, opts) ==
  [h |-> p.h, doc |-> p.doc,
   flags |-> flagStripUnlikelys + flagWeightClasses + flagCleanConditionally,
   value |-> "Readability", err |-> ""]

\* p is what the parser returned for a source that is not empty; h holds the
\* nodes before the call.  No Readability is returned without a body, and the
\* document that was parsed is dropped.
NewParsed(p, h, opts) ==
  IF p.doc = Nil \/ p.h.Body[p.doc] = Nil
  THEN [h |-> h, doc |-> Nil, flags |-> 0, value |-> "error", err |-> errParseFailure]
  ELSE [h |-> p.h, doc |-> p.doc,
        flags |-> flagStripUnlikelys + flagWeightClasses + flagCleanConditionally,
        value |-> "Readability", err |-> ""]

\* New(htmlSource, uri, opts...); the source text is given as its tokens, and
\* the empty text is the one with no token
New(h, src, opts) ==
  IF src = <<>>
  THEN [h |-> h, doc |-> Nil, flags |-> 0, value |-> "error", err |-> errEmptyInput]
  ELSE NewParsed(parse(h, src), h, opts)

ParseEnterCheckLate(h, d, opts) ==
  IF opts.maxElemsToParse > 0
     /\ Len(getElementsByTagName(removeScripts(h, d), d, "*")) > opts.maxElemsToParse
  THEN [h |-> removeScripts(h, d), err |-> errDocumentTooLarge]
  ELSE [h |-> removeScripts(h, d), err |-> ""]

\* Parse, up to the call of grabArticle: the size check, then the steps that
\* prepare the document, of which removeScripts is modelled
ParseEnter(h, d, opts) ==
  IF opts.maxElemsToParse > 0
     /\ Len(getElementsByTagName(h, d, "*")) > opts.maxElemsToParse
  THEN [h |-> h, err |-> errDocumentTooLarge]
  ELSE [h |-> removeScripts(h, d), err |-> ""]

cmpAscending(a, b) == a.textLength - b.textLength

cmpAddress(a, b) == (b.articleContent % 2) - (a.articleContent % 2)

\* slices.SortFunc(r.attempts, cmp): with at most twelve entries it is an
\* insertion sort, which moves an entry left past the entries cmp puts after it
cmp(a, b) == b.textLength - a.textLength

Swap(data, i, j) == [data EXCEPT ![i] = data[j], ![j] = data[i]]

RECURSIVE SiftLeft(_, _)
SiftLeft(data, j) ==
  IF j > 1 /\ cmp(data[j], data[j - 1]) < 0
  THEN SiftLeft(Swap(data, j, j - 1), j - 1)
  ELSE data

RECURSIVE InsertionSort(_, _)
InsertionSort(data, i) ==
  IF i > Len(data) THEN data ELSE InsertionSort(SiftLeft(data, i), i + 1)

SortFunc(data) == InsertionSort(data, 2)

\* one more attempt is to be made
Retry(fl, atts) == [flags |-> fl, attempts |-> atts, done |-> FALSE, ret |-> Nil]

ExhaustedAnyLength(fl, sorted) ==
  [flags |-> fl, attempts |-> sorted, done |-> TRUE, ret |-> sorted[1].articleContent]

\* no flag is left: sorted holds the attempts, longest first
Exhausted(fl, sorted) ==
  [flags |-> fl, attempts |-> sorted, done |-> TRUE,
   ret |-> IF sorted[1].textLength = 0 THEN Nil ELSE sorted[1].articleContent]

\* the end of one turn of the loop of grabArticle: the attempt made
\* articleContent, whose text has length textLength
grabArticleCheck(fl, atts, opts, articleContent, textLength) ==
  IF textLength < opts.charThreshold
  THEN IF flagIsActive(fl, flagStripUnlikelys)
       THEN Retry(removeFlag(fl, flagStripUnlikelys),
                  Append(atts, [articleContent |-> articleContent, textLength |-> textLength]))
       ELSE IF flagIsActive(fl, flagWeightClasses)
       THEN Retry(removeFlag(fl, flagWeightClasses),
                  Append(atts, [articleContent |-> articleContent, textLength |-> textLength]))
       ELSE IF flagIsActive(fl, flagCleanConditionally)
       THEN Retry(removeFlag(fl, flagCleanConditionally),
                  Append(atts, [articleContent |-> articleContent, textLength |-> textLength]))
       ELSE Exhausted(fl, SortFunc(Append(atts, [articleContent |-> articleContent,
                                                  textLength |-> textLength])))
  ELSE [flags |-> fl, attempts |-> atts, done |-> TRUE, ret |-> articleContent]

\* ------------------------------------------------- the run of New and Parse
\* the HTML sources given to New, as the tokens of html.Tokenizer
Documents ==
  { <<>>,
    <<Tok(TextToken, <<"x">>)>>,
    <<Tok(StartTagToken, "p"), Tok(TextToken, <<"x">>), Tok(EndTagToken, "p")>>,
    <<Tok(StartTagToken, "body")>>,
    <<Tok(StartTagToken, "html"), Tok(StartTagToken, "body"), Tok(StartTagToken, "p"),
      Tok(TextToken, <<"x">>), Tok(EndTagToken, "p")>>,
    <<Tok(StartTagToken, "html"), Tok(StartTagToken, "body"), Tok(StartTagToken, "script"),
      Tok(EndTagToken, "script"), Tok(SelfClosingTagToken, "br")>>,
    <<Tok(StartTagToken, "html"), Tok(EndTagToken, "html"), Tok(StartTagToken, "body")>>,
    <<Tok(DoctypeToken, ""), Tok(StartTagToken, "html"), Tok(StartTagToken, "body"),
      Tok(CommentToken, ""), Tok(TextToken, <<"x">>)>>,
    <<Tok(StartTagToken, "body"), Tok(StartTagToken, "noscript"), Tok(StartTagToken, "p"),
      Tok(EndTagToken, "div"), Tok(EndTagToken, "p")>> }

\* the Options given to New: MaxElemsToParse(n) and CharThreshold(n), or neither
OptionSets ==
  [maxElemsToParse : 0..MaxElemsToParse,
   charThreshold : (0..MaxCharThreshold) \cup {defaultCharThreshold}]

InitParse ==
  /\ NodeType = [n \in Nodes |-> freeSlot]
  /\ LocalName = [n \in Nodes |-> ""]
  /\ ParentNode = [n \in Nodes |-> Nil]
  /\ NextSibling = [n \in Nodes |-> Nil]
  /\ PreviousSibling = [n \in Nodes |-> Nil]
  /\ PreviousElementSibling = [n \in Nodes |-> Nil]
  /\ NextElementSibling = [n \in Nodes |-> Nil]
  /\ ChildNodes = [n \in Nodes |-> <<>>]
  /\ Children = [n \in Nodes |-> <<>>]
  /\ Body = [n \in Nodes |-> Nil]
  /\ DocumentElement = [n \in Nodes |-> Nil]
  /\ innerHTML = [n \in Nodes |-> <<>>]
  /\ Attributes = [n \in Nodes |-> <<>>]
  /\ panicked = FALSE
  /\ lastCall = [op |-> "none", n |-> Nil, child |-> Nil, old |-> Nil,
                 from |-> Nil, at |-> NotFound, ret |-> Nil, err |-> FALSE]
  /\ ops = 0
  /\ pc = "new"
  /\ htmlSource = <<>>
  /\ options = [maxElemsToParse |-> defaultMaxElemsToParse,
                charThreshold |-> defaultCharThreshold]
  /\ doc = Nil
  /\ flags = 0
  /\ attempts = <<>>
  /\ tried = <<>>
  /\ result = [value |-> "none", err |-> "", articleContent |-> Nil]
  /\ input = <<>>
  /\ output = <<>>

Returned(value, err, articleContent) ==
  result' = [value |-> value, err |-> err, articleContent |-> articleContent]

NewReturned(r, src, opts) ==
  /\ Store(r.h)
  /\ htmlSource' = src
  /\ options' = opts
  /\ doc' = r.doc
  /\ flags' = r.flags
  /\ Returned(r.value, r.err, Nil)
  /\ pc' = IF r.value = "error" THEN "done" ELSE "ready"
  /\ UNCHANGED <<attempts, tried, lastCall, ops, fnVars>>

CallNew(src, opts) ==
  /\ pc = "new"
  /\ Cardinality(FreeSlots(Heap)) >= NodesNeeded(src)
  /\ NewReturned(New(Heap, src, opts), src, opts)

ParseEntered(e) ==
  /\ Store(e.h)
  /\ IF e.err # ""
     THEN Returned("error", e.err, Nil) /\ pc' = "done"
     ELSE UNCHANGED result /\ pc' = "grab"
  /\ UNCHANGED <<htmlSource, options, doc, flags, attempts, tried, lastCall, ops, fnVars>>

\* Parse is called once on a Readability: it consumes the document
CallParse ==
  /\ pc = "ready"
  /\ ParseEntered(ParseEnter(Heap, doc, options))

AttemptChecked(g, textLength) ==
  /\ flags' = g.flags
  /\ attempts' = g.attempts
  /\ tried' = Append(tried, [flags |-> flags, textLength |-> textLength])
  /\ IF g.done
     THEN /\ pc' = "done"
          /\ IF g.ret = Nil
             THEN Returned("error", errExtractionFailed, Nil)
             ELSE Returned("Result", "", g.ret)
     ELSE pc' = "grab" /\ UNCHANGED result
  /\ UNCHANGED <<NodeType, LocalName, ParentNode, NextSibling, PreviousSibling,
                 PreviousElementSibling, NextElementSibling, ChildNodes,
                 Children, Body, DocumentElement, innerHTML, Attributes, panicked,
                 htmlSource, options, doc, lastCall, ops, fnVars>>

\* One turn of the loop of grabArticle and, when the loop ends, the return of
\* grabArticle and of Parse.  What the attempt extracts is not modelled: its
\* article content is named by the number of the attempt, and the length of
\* its text is any length.
CallAttempt(textLength) ==
  /\ pc = "grab"
  /\ AttemptChecked(grabArticleCheck(flags, attempts, options, Len(tried) + 1, textLength),
                    textLength)

NextParse ==
  \/ \E src \in Documents, opts \in OptionSets : CallNew(src, opts)
  \/ CallParse
  \/ \E textLength \in 0..MaxTextLength : CallAttempt(textLength)

SpecParse == InitParse /\ [][NextParse]_vars

\* ----------------------------------- New and Parse on the text of a document
\* The run above is made again with the HTML text as the source and with the
\* page that grabArticle works on.  The page is one none of whose elements
\* scores, so the top candidate is a new DIV that takes the children of the
\* page.  The node loop, the scoring and prepArticle are left out: they
\* remove, rename and wrap nodes, and the only elements they create are DIV
\* and P.  The sources hold no <img>, <br> or <font>, so
\* unwrapNoscriptImages, replaceBrs and replaceNodeTags find nothing to do.
MaxPageNodes == 32

PageNodes == 1..MaxPageNodes

\* <body>x, <body><div>x</div>, <body><script>x</script>x,
\* <body>x<<!>script>x, <body><style>x<script>x</script></style>x,
\* <body><div>x<</div>script>, <body>x<<script></script>script>x,
\* <html><body><noscript><div>x</div></noscript>
Pages ==
  { <<"<", "body", ">", "x">>,
    <<"<", "body", ">", "<", "div", ">", "x", "<", "/", "div", ">">>,
    <<"<", "body", ">", "<", "script", ">", "x", "<", "/", "script", ">", "x">>,
    <<"<", "body", ">", "x", "<", "<", "!", ">", "script", ">", "x">>,
    <<"<", "body", ">", "<", "style", ">", "x", "<", "script", ">", "x",
      "<", "/", "script", ">", "<", "/", "style", ">", "x">>,
    <<"<", "body", ">", "<", "div", ">", "x", "<", "<", "/", "div", ">", "script", ">">>,
    <<"<", "body", ">", "x", "<", "<", "script", ">", "<", "/", "script", ">",
      "script", ">", "x">>,
    <<"<", "html", ">", "<", "body", ">", "<", "noscript", ">", "<", "div", ">", "x",
      "<", "/", "div", ">", "<", "/", "noscript", ">">> }

PageOptionSets == {o \in OptionSets : o.maxElemsToParse = defaultMaxElemsToParse}

\* New(htmlSource, uri, opts...) on the text of the source
NewText(h, s, opts) ==
  IF s = <<>>
  THEN [h |-> h, doc |-> Nil, flags |-> 0, value |-> "error", err |-> errEmptyInput]
  ELSE NewParsed(parse(h, Tokenize(s)), h, opts)

\* prepDocument: r.removeNodes(r.getAllNodesWithTag(doc, "style"), nil)
prepDocument(h, d) == removeScriptNodes(h, getElementsByTagName(h, d, "style"))

PrepareEntered(e, d) ==
  IF e.err # "" THEN e ELSE [h |-> prepDocument(e.h, d), err |-> ""]

\* Parse, up to the call of grabArticle: the size check, removeScripts and
\* prepDocument
ParsePrepare(h, d, opts) == PrepareEntered(ParseEnter(h, d, opts), d)

\* for page.FirstChild() != nil { topCandidate.AppendChild(page.FirstChild()) }
RECURSIVE MoveChildren(_, _, _)
MoveChildren(h, page, topCandidate) ==
  IF h.ChildNodes[page] = <<>> THEN h
  ELSE MoveChildren(AppendChild(h, topCandidate, h.ChildNodes[page][1]), page, topCandidate)

\* topCandidate = doc.createElementNode("DIV"), which takes the children of
\* the page and becomes its only child
CreateTopCandidate(h, page, topCandidate) ==
  AppendChild(MoveChildren(Allocate(h, topCandidate, elementNode, "div"), page, topCandidate),
              page, topCandidate)

\* articleContent = doc.createElementNode("DIV"), to which the sibling loop
\* appends the top candidate
CreateArticleContent(h, topCandidate, articleContent) ==
  [h |-> AppendChild(Allocate(h, articleContent, elementNode, "div"),
                     articleContent, topCandidate),
   articleContent |-> articleContent]

ArticleOfTopCandidate(h, topCandidate) == CreateArticleContent(h, topCandidate, NewNode(h))

\* one turn of the loop of grabArticle, up to the check of the text length
GrabAttempt(h, page, topCandidate) ==
  ArticleOfTopCandidate(CreateTopCandidate(h, page, topCandidate), topCandidate)

\* if textLength < r.options.charThreshold { page.SetInnerHTML(pageCacheHtml) }
RestorePage(h, page, pageCacheHtml, textLength, opts) ==
  IF textLength < opts.charThreshold
  THEN SetInnerHTML(h, page, Tokenize(pageCacheHtml))
  ELSE h

\* no node yet: every slot of the pool is free
InitPool(pool) ==
  /\ NodeType = [n \in pool |-> freeSlot]
  /\ LocalName = [n \in pool |-> ""]
  /\ ParentNode = [n \in pool |-> Nil]
  /\ NextSibling = [n \in pool |-> Nil]
  /\ PreviousSibling = [n \in pool |-> Nil]
  /\ PreviousElementSibling = [n \in pool |-> Nil]
  /\ NextElementSibling = [n \in pool |-> Nil]
  /\ ChildNodes = [n \in pool |-> <<>>]
  /\ Children = [n \in pool |-> <<>>]
  /\ Body = [n \in pool |-> Nil]
  /\ DocumentElement = [n \in pool |-> Nil]
  /\ innerHTML = [n \in pool |-> <<>>]
  /\ Attributes = [n \in pool |-> <<>>]
  /\ panicked = FALSE
  /\ lastCall = [op |-> "none", n |-> Nil, child |-> Nil, old |-> Nil,
                 from |-> Nil, at |-> NotFound, ret |-> Nil, err |-> FALSE]
  /\ ops = 0
  /\ pc = "new"
  /\ htmlSource = <<>>
  /\ options = [maxElemsToParse |-> defaultMaxElemsToParse,
                charThreshold |-> defaultCharThreshold]
  /\ doc = Nil
  /\ flags = 0
  /\ attempts = <<>>
  /\ tried = <<>>
  /\ result = [value |-> "none", err |-> "", articleContent |-> Nil]
  /\ input = <<>>
  /\ output = <<>>

InitPage == InitPool(PageNodes)

CallNewText(src, opts) ==
  /\ pc = "new"
  /\ NewReturned(NewText(Heap, src, opts), src, opts)

\* the start of grabArticle keeps the text of the page: pageCacheHtml (input)
PagePrepared(e) ==
  /\ Store(e.h)
  /\ IF e.err # ""
     THEN Returned("error", e.err, Nil) /\ pc' = "done" /\ UNCHANGED input
     ELSE UNCHANGED result /\ pc' = "grab" /\ input' = GetInnerHTML(e.h, e.h.Body[doc])
  /\ UNCHANGED <<htmlSource, options, doc, flags, attempts, tried, lastCall, ops, output>>

CallParsePage ==
  /\ pc = "ready"
  /\ PagePrepared(ParsePrepare(Heap, doc, options))

AttemptReturned(g, textLength) ==
  /\ flags' = g.flags
  /\ attempts' = g.attempts
  /\ tried' = Append(tried, [flags |-> flags, textLength |-> textLength])
  /\ IF g.done
     THEN /\ pc' = "done"
          /\ IF g.ret = Nil
             THEN Returned("error", errExtractionFailed, Nil)
             ELSE Returned("Result", "", g.ret)
     ELSE pc' = "grab" /\ UNCHANGED result
  /\ UNCHANGED <<htmlSource, options, doc, lastCall, ops, fnVars>>

PageAttempted(a, textLength) ==
  /\ Store(RestorePage(a.h, Body[doc], input, textLength, options))
  /\ AttemptReturned(grabArticleCheck(flags, attempts, options, a.articleContent, textLength),
                     textLength)

\* One turn of the loop of grabArticle on the page; the length of the text
\* the attempt keeps is any length.
CallAttemptPage(textLength) ==
  /\ pc = "grab"
  /\ PageAttempted(GrabAttempt(Heap, Body[doc], NewNode(Heap)), textLength)

NextPage ==
  \/ \E src \in Pages, opts \in PageOptionSets : CallNewText(src, opts)
  \/ CallParsePage
  \/ \E textLength \in 0..MaxTextLength : CallAttemptPage(textLength)

SpecPage == InitPage /\ [][NextPage]_vars

\* ------------------------------------------------ two runs of New and Parse
\* what Parse returns, with the article written as HTMLContent
ResultOf(h, res) ==
  [value |-> res.value, err |-> res.err,
   HTMLContent |-> IF res.articleContent # Nil
                   THEN GetInnerHTML(h, res.articleContent) ELSE <<>>]

\* New makes a Readability of its own: all flags, no attempt
NewRun(r, src, opts) ==
  /\ Store(r.h)
  /\ htmlSource' = src
  /\ options' = opts
  /\ doc' = r.doc
  /\ flags' = r.flags
  /\ attempts' = <<>>
  /\ tried' = <<>>
  /\ Returned(r.value, r.err, Nil)
  /\ pc' = IF r.value = "error" THEN "done" ELSE "ready"
  /\ UNCHANGED <<lastCall, ops, input>>

\* The first run.  The length of the text an attempt keeps depends on the
\* page and on the flags of the attempt: textLengths gives it for the first,
\* second, third and fourth attempt on this page.
CallNewFirst(src, opts, textLengths) ==
  /\ pc = "new"
  /\ output' = [textLengths |-> textLengths, results |-> <<>>]
  /\ NewRun(NewText(Heap, src, opts), src, opts)

\* The second run, on the same source with the same options, when the
\* first has returned; the nodes of the first run stay where they are.
CallNewSecond ==
  /\ pc = "done"
  /\ output.results = <<>>
  /\ output' = [output EXCEPT !.results = <<ResultOf(Heap, result)>>]
  /\ NewRun(NewText(Heap, htmlSource, options), htmlSource, options)

CallAttemptRun ==
  /\ pc = "grab"
  /\ PageAttempted(GrabAttempt(Heap, Body[doc], NewNode(Heap)),
                   output.textLengths[Len(tried) + 1])

RunNodes == 1..(2 * MaxPageNodes)

NextTwice ==
  \/ \E src \in Pages, opts \in PageOptionSets,
        textLengths \in [1..4 -> {0, 1, MaxTextLength}] : CallNewFirst(src, opts, textLengths)
  \/ CallParsePage
  \/ CallAttemptRun
  \/ CallNewSecond

SpecTwice == InitPool(RunNodes) /\ [][NextTwice]_vars

\* ------------------------------------------------- Readability.fixRelativeUris
\* The value of an attribute is a sequence of pieces: white space (" "), a
\* scheme with its colon, "//host", a path that begins with '/', a word (a
\* path that does not, or the rest of an opaque URI), "#", the separator
\* ",%20" and "%zz", an escape that url.Parse rejects.  Queries are left out.
Schemes == {"http:", "javascript:", "JAVASCRIPT:"}

Paths == {"/path", "/dir/", "/base/"}

RECURSIVE TrimLeft(_)
TrimLeft(s) == IF s # <<>> /\ Head(s) = " " THEN TrimLeft(Tail(s)) ELSE s

RECURSIVE TrimRight(_)
TrimRight(s) ==
  IF s # <<>> /\ s[Len(s)] = " " THEN TrimRight(SubSeq(s, 1, Len(s) - 1)) ELSE s

\* strings.TrimSpace
TrimSpace(s) == TrimRight(TrimLeft(s))

\* strings.HasPrefix(s, prefix), for a prefix of one piece
HasPrefix(s, prefix) == s # <<>> /\ s[1] = prefix

\* strings.ToLower on a scheme
ToLower(c) == IF c = "JAVASCRIPT:" THEN "javascript:" ELSE c

\* url.Parse on the text before '#': scheme, host, then a path or, after a
\* scheme and without a leading '/', an opaque rest
ParseScheme(s) == IF s # <<>> /\ s[1] \in Schemes THEN ToLower(s[1]) ELSE ""
AfterScheme(s) == IF s # <<>> /\ s[1] \in Schemes THEN Tail(s) ELSE s
ParseHost(r) == IF r # <<>> /\ r[1] = "//host" THEN "//host" ELSE ""
AfterHost(r) == IF r # <<>> /\ r[1] = "//host" THEN Tail(r) ELSE r
IsOpaque(scheme, r) == scheme # "" /\ r # <<>> /\ r[1] \notin Paths \cup {"//host"}

ParseRest(scheme, r, fragment) ==
  [Scheme |-> scheme, Host |-> ParseHost(r),
   Path |-> IF IsOpaque(scheme, r) THEN <<>> ELSE AfterHost(r),
   Opaque |-> IF IsOpaque(scheme, r) THEN r ELSE <<>>,
   Fragment |-> fragment, err |-> FALSE]

\* url.Parse: the fragment is cut off first; a malformed escape is an error
urlParse(s) ==
  IF \E i \in 1..Len(s) : s[i] = "%zz"
  THEN [Scheme |-> "", Host |-> "", Path |-> <<>>, Opaque |-> <<>>,
        Fragment |-> <<>>, err |-> TRUE]
  ELSE ParseRest(ParseScheme(s),
                 AfterScheme(SubSeq(s, 1, IndexFrom(s, 1, "#") - 1)),
                 SubSeq(s, IndexFrom(s, 1, "#") + 1, Len(s)))

\* resolvePath: the path of the base when the reference has none, the path
\* of the reference when it begins with '/', or else the reference under the
\* directory of the base (the bases here are directories)
resolvePath(base, ref) ==
  IF ref = <<>> THEN base
  ELSE IF ref[1] \in Paths THEN ref
  ELSE base \o ref

\* URL.ResolveReference
ResolveReference(base, ref) ==
  IF ref.Scheme # "" THEN ref
  ELSE IF ref.Host # "" THEN [ref EXCEPT !.Scheme = base.Scheme]
  ELSE [ref EXCEPT !.Scheme = base.Scheme, !.Host = base.Host,
                   !.Path = resolvePath(base.Path, ref.Path)]

\* the text toAbsoluteURI builds from the resolved URL u
AbsText(u) ==
  (IF u.Scheme # "" THEN <<u.Scheme>> ELSE <<>>)
    \o (IF u.Host # "" THEN <<u.Host>> ELSE <<>>)
    \o (IF u.Path # <<>> THEN u.Path ELSE IF u.Opaque # <<>> THEN u.Opaque ELSE <<"/">>)
    \o (IF u.Fragment # <<>> THEN <<"#">> \o u.Fragment ELSE <<>>)

AbsSuffix(uri, abs) ==
  IF uri[Len(uri)] = "#" /\ abs[Len(abs)] # "#" THEN abs \o <<"#">> ELSE abs

Resolved(uri, base, ref) ==
  IF base.err \/ ref.err THEN uri
  ELSE AbsSuffix(uri, AbsText(ResolveReference(base, ref)))

\* the text toAbsoluteURI returns for the trimmed text uri; reading the first
\* character of an empty text is an index out of range, a panic
Trimmed(uri, baseURI, documentURI) ==
  IF baseURI = documentURI /\ uri = <<>> THEN [panicked |-> TRUE, value |-> <<>>]
  ELSE IF baseURI = documentURI /\ uri[1] = "#" THEN [panicked |-> FALSE, value |-> uri]
  ELSE IF uri = <<>> THEN [panicked |-> FALSE, value |-> AbsText(urlParse(baseURI))]
  ELSE [panicked |-> FALSE, value |-> Resolved(uri, urlParse(baseURI), urlParse(uri))]

toAbsoluteURI(uri, baseURI, documentURI) == Trimmed(TrimSpace(uri), baseURI, documentURI)

\* strings.Split(href, ",%20")
RECURSIVE Split(_)
Split(s) ==
  IF IndexFrom(s, 1, ",%20") > Len(s) THEN <<s>>
  ELSE <<SubSeq(s, 1, IndexFrom(s, 1, ",%20") - 1)>>
         \o Split(SubSeq(s, IndexFrom(s, 1, ",%20") + 1, Len(s)))

\* toAbsoluteURI on each part and strings.Join(hrefs, ",%20")
RECURSIVE AbsoluteParts(_, _, _, _)
AbsoluteJoin(first, rest) ==
  [panicked |-> first.panicked \/ rest.panicked,
   value |-> first.value \o <<",%20">> \o rest.value]

AbsoluteParts(parts, i, baseURI, documentURI) ==
  IF i = Len(parts) THEN toAbsoluteURI(parts[i], baseURI, documentURI)
  ELSE AbsoluteJoin(toAbsoluteURI(parts[i], baseURI, documentURI),
                    AbsoluteParts(parts, i + 1, baseURI, documentURI))

AbsoluteHref(href, baseURI, documentURI) ==
  AbsoluteParts(Split(href), 1, baseURI, documentURI)

\* the node that stands where the link stood, once the loop of
\* fixRelativeUris has dealt with the link: the link, a text node that holds
\* its text, or a <span> that holds its children
LinkWithHref(link, abs) ==
  [node |-> "a", href |-> abs.value, children |-> link.children, panicked |-> abs.panicked]

fixLink(link, baseURI, documentURI) ==
  IF link.href = <<>>
  THEN [node |-> "a", href |-> <<>>, children |-> link.children, panicked |-> FALSE]
  ELSE IF HasPrefix(link.href, "javascript:")
  THEN IF Len(link.children) = 1 /\ link.children[1] = "text"
       THEN [node |-> "text", href |-> <<>>, children |-> <<>>, panicked |-> FALSE]
       ELSE [node |-> "span", href |-> <<>>, children |-> link.children, panicked |-> FALSE]
  ELSE LinkWithHref(link, AbsoluteHref(link.href, baseURI, documentURI))

\* the src and the poster of a media element, each resolved when not empty
fixAttribute(v, baseURI, documentURI) ==
  IF v = <<>> THEN [panicked |-> FALSE, value |-> <<>>]
  ELSE toAbsoluteURI(v, baseURI, documentURI)

MediaFixed(src, poster) ==
  [src |-> src.value, poster |-> poster.value,
   panicked |-> src.panicked \/ poster.panicked]

fixMedia(media, baseURI, documentURI) ==
  MediaFixed(fixAttribute(media.src, baseURI, documentURI),
             fixAttribute(media.poster, baseURI, documentURI))

\* fixRelativeUris on an article with one <a> and one media element; a
\* panic ends the call, and Parse with it
UrisFixed(link, media) ==
  [link |-> link, media |-> media, panicked |-> link.panicked \/ media.panicked]

fixRelativeUris(a, baseURI, documentURI) ==
  UrisFixed(fixLink(a.link, baseURI, documentURI), fixMedia(a.media, baseURI, documentURI))

DocumentURI == <<"http:", "//host", "/dir/">>

\* the base URI: the document URI, or the href of a <base> element
BaseURIs == {DocumentURI, <<"http:", "//host", "/base/">>}

Hrefs ==
  { <<>>, <<"#", "x">>, <<"/path">>, <<"x">>, <<"http:", "//host", "/path">>,
    <<"http:", "//host", "/path", "#", "x">>, <<"//host", "/path">>,
    <<"javascript:", "x">>, <<"JAVASCRIPT:", "x">>, <<" ", "javascript:", "x">>,
    <<" ">>, <<" ", "x", " ">>, <<"%zz">>, <<"x", "#">>,
    <<"x", ",%20", "/path">>, <<"x", ",%20">> }

MediaValues == {<<>>, <<"x">>, <<" ">>, <<"%zz">>}

LinkChildren == {<<>>, <<"text">>, <<"text", "element">>}

Articles ==
  [link : [href : Hrefs, children : LinkChildren],
   media : [src : MediaValues, poster : MediaValues]]

CallFixRelativeUris(a, baseURI) ==
  /\ pc = "new"
  /\ input' = [article |-> a, baseURI |-> baseURI]
  /\ output' = fixRelativeUris(a, baseURI, DocumentURI)
  /\ pc' = "fixed"
  /\ UNCHANGED <<treeVars, htmlSource, options, doc, flags, attempts, tried, result>>

NextUris == \E a \in Articles, baseURI \in BaseURIs : CallFixRelativeUris(a, baseURI)

SpecUris == InitParse /\ [][NextUris]_vars

\* ------------------------------------------------------ Readability.getJSONLD
\* What json.Unmarshal makes of an entry of the JSON object: nothing (the
\* entry is absent), a string, a number, an object (of which the "name"
\* entry is kept) or an array.  A text is a sequence of pieces: words, white
\* space (" "), HTML entities, and the ", " that joins the authors.
Absent == [kind |-> "absent"]
Str(s) == [kind |-> "string", s |-> s]
Num == [kind |-> "number"]
Obj(name) == [kind |-> "object", name |-> name]
Arr(elems) == [kind |-> "array", elems |-> elems]

IsString(v) == v.kind = "string"
HasStringName(v) == v.kind = "object" /\ IsString(v.name)

\* the regular expressions schemaUrl and jsonLdArticleTypes, on a string
schemaUrl(v) == v.s = <<"https://schema.org">>
jsonLdArticleTypes(v) == v.s \in {<<"Article">>, <<"NewsArticle">>}

noMetadata == [panicked |-> FALSE, found |-> FALSE]
typeAssertionPanic == [panicked |-> TRUE, found |-> FALSE]

IsArticleElement(el) ==
  el.kind = "object" /\ IsString(el.type) /\ jsonLdArticleTypes(el.type)

\* the object the metadata is read from: the first element of @graph that
\* is an article, when the object has no @type or has a @graph
GraphElement(parsed) ==
  IF (parsed.type = Absent \/ parsed.graph # Absent) /\ parsed.graph.kind = "array"
     /\ \E i \in 1..Len(parsed.graph.elems) : IsArticleElement(parsed.graph.elems[i])
  THEN parsed.graph.elems[CHOOSE i \in 1..Len(parsed.graph.elems) :
         /\ IsArticleElement(parsed.graph.elems[i])
         /\ \A j \in 1..(i - 1) : ~IsArticleElement(parsed.graph.elems[j])]
  ELSE parsed

\* meta.title, from "name" and "headline"; headlineCloser says that the
\* headline matches the title of the page and the name does not
jsonTitle(parsed) ==
  IF parsed.name # Absent /\ parsed.headline # Absent /\ IsString(parsed.name)
     /\ IsString(parsed.headline) /\ parsed.name.s # parsed.headline.s
  THEN IF parsed.headlineCloser THEN parsed.headline.s ELSE parsed.name.s
  ELSE IF IsString(parsed.name) THEN TrimSpace(parsed.name.s)
  ELSE IF IsString(parsed.headline) THEN TrimSpace(parsed.headline.s)
  ELSE <<>>

\* strings.Join(authorNames, ", ")
RECURSIVE JoinNames(_, _)
JoinNames(authors, i) ==
  IF i > Len(authors) THEN <<>>
  ELSE (IF i > 1 THEN <<", ">> ELSE <<>>) \o TrimSpace(authors[i].name.s)
         \o JoinNames(authors, i + 1)

\* meta.byline, from "author"; in the loop over an array of authors
\* a.(map[string]interface{})["name"].(string) has no check
jsonByline(author) ==
  IF author.kind = "object"
  THEN [panicked |-> FALSE,
        value |-> IF IsString(author.name) THEN TrimSpace(author.name.s) ELSE <<>>]
  ELSE IF author.kind = "array" /\ author.elems # <<>> /\ HasStringName(author.elems[1])
  THEN IF \A i \in 1..Len(author.elems) : HasStringName(author.elems[i])
       THEN [panicked |-> FALSE, value |-> JoinNames(author.elems, 1)]
       ELSE [panicked |-> TRUE, value |-> <<>>]
  ELSE [panicked |-> FALSE, value |-> <<>>]

jsonText(v) == IF IsString(v) THEN TrimSpace(v.s) ELSE <<>>

jsonMetadata(parsed, byline) ==
  [panicked |-> byline.panicked, found |-> ~byline.panicked,
   title |-> jsonTitle(parsed), byline |-> byline.value,
   excerpt |-> jsonText(parsed.description),
   siteName |-> IF HasStringName(parsed.publisher)
                THEN TrimSpace(parsed.publisher.name.s) ELSE <<>>,
   datePublished |-> jsonText(parsed.datePublished)]

\* parsed["@type"].(string) has no check
jsonTyped(parsed) ==
  IF parsed.type = Absent THEN noMetadata
  ELSE IF ~IsString(parsed.type) THEN typeAssertionPanic
  ELSE IF ~jsonLdArticleTypes(parsed.type) THEN noMetadata
  ELSE jsonMetadata(parsed, jsonByline(parsed.author))

\* one <script type="application/ld+json">; ctx.(string) has no check
jsonLdElement(parsed) ==
  IF ~parsed.decodes THEN noMetadata
  ELSE IF parsed.context = Absent THEN noMetadata
  ELSE IF ~IsString(parsed.context) THEN typeAssertionPanic
  ELSE IF ~schemaUrl(parsed.context) THEN noMetadata
  ELSE jsonTyped(GraphElement(parsed))

\* getJSONLD: the scripts in the order of the document, up to the first
\* that gives metadata; a panic ends the call, and Parse with it
RECURSIVE getJSONLDFrom(_, _)
getJSONLDNext(r, scripts, i) ==
  IF r.panicked \/ r.found THEN r ELSE getJSONLDFrom(scripts, i + 1)

getJSONLDFrom(scripts, i) ==
  IF i > Len(scripts) THEN noMetadata
  ELSE getJSONLDNext(jsonLdElement(scripts[i]), scripts, i)

getJSONLD(scripts) == getJSONLDFrom(scripts, 1)

\* the JSON-LD blocks: an article, and the blocks that differ from it in a
\* few entries
Article ==
  [kind |-> "object", decodes |-> TRUE, context |-> Str(<<"https://schema.org">>),
   type |-> Str(<<"Article">>), graph |-> Absent,
   name |-> Str(<<"x">>), headline |-> Absent, headlineCloser |-> FALSE,
   author |-> Absent, description |-> Absent, publisher |-> Absent,
   datePublished |-> Absent]

GraphElements ==
  {[Article EXCEPT !.name = Str(<<"y">>)], [Article EXCEPT !.type = Str(<<"Thing">>)],
   [Article EXCEPT !.type = Arr(<<Str(<<"Article">>)>>)]}

AuthorElements == {Obj(Str(<<"x">>)), Obj(Str(<<" ", "y">>)), Obj(Num), Str(<<"x">>)}

Authors ==
  {Absent, Str(<<"x">>), Obj(Absent), Obj(Str(<<"x">>)), Obj(Num), Arr(<<>>)}
    \cup {Arr(<<a>>) : a \in AuthorElements}
    \cup {Arr(<<a, b>>) : a \in AuthorElements, b \in AuthorElements}

Blocks ==
  {[Article EXCEPT !.decodes = d, !.context = c, !.type = t, !.graph = g] :
     d \in BOOLEAN,
     c \in {Absent, Str(<<"https://schema.org">>), Str(<<"http://example.org">>), Obj(Absent)},
     t \in {Absent, Str(<<"Article">>), Str(<<"Thing">>), Arr(<<Str(<<"Article">>)>>)},
     g \in {Absent, Num} \cup {Arr(<<e>>) : e \in GraphElements}}
  \cup {[Article EXCEPT !.name = n, !.headline = l, !.headlineCloser = c] :
          n \in {Absent, Str(<<"x">>), Num},
          l \in {Absent, Str(<<"x">>), Str(<<"y", "&amp;">>)}, c \in BOOLEAN}
  \cup {[Article EXCEPT !.author = a, !.publisher = u, !.description = e, !.datePublished = e] :
          a \in Authors, u \in {Absent, Str(<<"x">>), Obj(Str(<<"x">>)), Obj(Num)},
          e \in {Absent, Str(<<"x">>), Num}}

ScriptLists ==
  {<<b>> : b \in Blocks}
    \cup {<<[Article EXCEPT !.decodes = FALSE], b>> : b \in Blocks}

CallGetJSONLD(scripts) ==
  /\ pc = "new"
  /\ input' = scripts
  /\ output' = getJSONLD(scripts)
  /\ pc' = "jsonld"
  /\ UNCHANGED <<treeVars, htmlSource, options, doc, flags, attempts, tried, result>>

NextJSONLD == \E scripts \in ScriptLists : CallGetJSONLD(scripts)

SpecJSONLD == InitParse /\ [][NextJSONLD]_vars

\* ---------------------------------------------- Readability.getArticleMetadata
\* util.go anyOf: the first text of the list that is not empty
anyOfLast(texts) ==
  IF \E i \in 1..Len(texts) : texts[i] # <<>>
  THEN texts[CHOOSE i \in 1..Len(texts) :
               texts[i] # <<>> /\ \A j \in (i + 1)..Len(texts) : texts[j] = <<>>]
  ELSE <<>>

anyOf(texts) ==
  IF \E i \in 1..Len(texts) : texts[i] # <<>>
  THEN texts[CHOOSE i \in 1..Len(texts) :
               texts[i] # <<>> /\ \A j \in 1..(i - 1) : texts[j] = <<>>]
  ELSE <<>>

\* the keys getArticleMetadata reads from the values of the <meta> elements
titleKeys == <<"dc:title", "dcterm:title", "og:title", "weibo:article:title",
               "weibo:webpage:title", "title", "twitter:title">>
bylineKeys == <<"dc:creator", "dcterm:creator", "author">>
excerptKeys == <<"dc:description", "dcterm:description", "og:description",
                 "weibo:article:description", "weibo:webpage:description",
                 "description", "twitter:description">>
siteNameKeys == <<"og:site_name">>
publishedTimeKeys == <<"article:published_time">>

\* propertyPattern on the property attribute and namePattern on the name
\* attribute, with the key each makes: lower case, and ':' for '.' in a name;
\* "" when the pattern does not match
propertyKey(property) ==
  CASE property \in {"og:title", "OG:Title"} -> "og:title"
    [] property \in {"dc:title", "twitter:title", "dc:creator", "og:description",
                     "og:site_name", "article:published_time"} -> property
    [] OTHER -> ""

nameKey(name) ==
  CASE name \in {"og:title", "OG:Title"} -> "og:title"
    [] name = "dc.title" -> "dc:title"
    [] name \in {"dc:title", "twitter:title", "weibo:article:title", "title",
                 "dc:creator", "author", "og:description", "description",
                 "og:site_name"} -> name
    [] OTHER -> ""

\* the key under which the loop stores the content of a <meta> element
metaKey(element) ==
  IF element.property # "" /\ propertyKey(element.property) # ""
  THEN propertyKey(element.property)
  ELSE IF element.name # "" THEN nameKey(element.name) ELSE ""

\* the loop over the <meta> elements: values[name] = strings.TrimSpace(content)
RECURSIVE metaValues(_, _, _)
metaValues(values, metaElements, i) ==
  IF i > Len(metaElements) THEN values
  ELSE metaValues(IF metaElements[i].content # <<>> /\ metaKey(metaElements[i]) # ""
                  THEN [values EXCEPT ![metaKey(metaElements[i])] =
                          TrimSpace(metaElements[i].content)]
                  ELSE values,
                  metaElements, i + 1)

MetaKeys == {"dc:title", "dcterm:title", "og:title", "weibo:article:title",
             "weibo:webpage:title", "title", "twitter:title", "dc:creator",
             "dcterm:creator", "author", "dc:description", "dcterm:description",
             "og:description", "weibo:article:description",
             "weibo:webpage:description", "description", "twitter:description",
             "og:site_name", "article:published_time"}

\* decodeHTML on the pieces of a text
decodePiece(c) ==
  CASE c = "&amp;" -> "&" [] c = "&lt;" -> "<" [] c = "&gt;" -> ">"
    [] c = "&quot;" -> "\"" [] c = "&apos;" -> "'" [] OTHER -> c

unescapeHtmlEntities(str) == [i \in 1..Len(str) |-> decodePiece(str[i])]

\* values[keys[1]], values[keys[2]], ...
Picked(values, keys) == [i \in 1..Len(keys) |-> values[keys[i]]]

\* anyOf(jsonld.field, values[...], ...)
metaField(first, values, keys) == anyOf(<<first>> \o Picked(values, keys))

titleOr(title, heuristic) == IF title = <<>> THEN heuristic ELSE title

\* jsonld is the metadata of getJSONLD with every field empty when there is
\* none; articleTitle is what getArticleTitle returns
metadataOf(jsonld, values, articleTitle) ==
  [title |-> unescapeHtmlEntities(
               titleOr(metaField(jsonld.title, values, titleKeys), articleTitle)),
   byline |-> unescapeHtmlEntities(metaField(jsonld.byline, values, bylineKeys)),
   excerpt |-> unescapeHtmlEntities(metaField(jsonld.excerpt, values, excerptKeys)),
   siteName |-> unescapeHtmlEntities(metaField(jsonld.siteName, values, siteNameKeys)),
   publishedTime |-> unescapeHtmlEntities(
                       metaField(jsonld.datePublished, values, publishedTimeKeys))]

emptyMetadata ==
  [panicked |-> FALSE, found |-> FALSE, title |-> <<>>, byline |-> <<>>,
   excerpt |-> <<>>, siteName |-> <<>>, datePublished |-> <<>>]

getArticleMetadata(jsonld, metaElements, articleTitle) ==
  metadataOf(IF jsonld.found THEN jsonld ELSE emptyMetadata,
             metaValues([k \in MetaKeys |-> <<>>], metaElements, 1), articleTitle)

\* what getJSONLD returned before: nothing, or the metadata of a block
JsonLds ==
  {getJSONLD(<<[Article EXCEPT !.name = n, !.author = a, !.publisher = a,
                               !.description = e, !.datePublished = e]>>) :
     n \in {Absent, Str(<<"x">>), Str(<<"x", "&amp;">>)},
     a \in {Absent, Obj(Str(<<"j">>))}, e \in {Absent, Str(<<"j">>)}}
    \cup {noMetadata}

MetaElements ==
  [property : {"", "og:title", "OG:Title", "twitter:title", "article:published_time"},
   name : {""}, content : {<<"m">>, <<" ">>, <<"m", "&lt;">>}]
  \cup [property : {""},
        name : {"dc.title", "title", "twitter:title", "author", "description",
                "og:site_name", "keywords"},
        content : {<<"n">>, <<>>}]

MetaLists ==
  {<<>>} \cup {<<a>> : a \in MetaElements} \cup {<<a, b>> : a \in MetaElements, b \in MetaElements}

CallGetArticleMetadata(jsonld, metaElements) ==
  /\ pc = "new"
  /\ input' = [jsonld |-> IF jsonld.found THEN jsonld ELSE emptyMetadata,
               metaElements |-> metaElements, articleTitle |-> <<"t">>]
  /\ output' = getArticleMetadata(jsonld, metaElements, <<"t">>)
  /\ pc' = "metadata"
  /\ UNCHANGED <<treeVars, htmlSource, options, doc, flags, attempts, tried, result>>

NextMetadata ==
  \E jsonld \in JsonLds, metaElements \in MetaLists : CallGetArticleMetadata(jsonld, metaElements)

SpecMetadata == InitParse /\ [][NextMetadata]_vars

\* ------------------------------------------------- Readability.getArticleTitle
\* A text is a sequence of pieces: " " for a white space character, ":" and
\* the separators, and words of letters.
RuneCount(c) ==
  CASE c = "abcdefghijklmno" -> 15 [] c = "word-of-151-letters" -> 151 [] OTHER -> 1

RECURSIVE RuneLen(_)
RuneLen(s) == IF s = <<>> THEN 0 ELSE RuneCount(Head(s)) + RuneLen(Tail(s))

\* the wordCount closure: len(multipleWhitespaces.Split(s, -1)), one more
\* than the number of runs of white space
wordCount(s) ==
  1 + Cardinality({k \in 1..Len(s) : s[k] = " " /\ (k = 1 \/ s[k - 1] # " ")})

\* normalize.ReplaceAllString(s, " "): a run of two or more white spaces
\* becomes one blank
RECURSIVE NormalizeSpaces(_)
NormalizeSpaces(s) ==
  IF Len(s) < 2 THEN s
  ELSE IF s[1] = " " /\ s[2] = " " THEN NormalizeSpaces(Tail(s))
  ELSE <<s[1]>> \o NormalizeSpaces(Tail(s))

\* getInnerText(e, true) on the text content of e
getInnerText(textContent) == NormalizeSpaces(TrimSpace(textContent))

finalPartChars == {"|", "-", "/"}
hierarchicalChars == {"/"}

\* a match of ` [chars] `
MatchesBetweenBlanks(s, chars) ==
  \E k \in 2..(Len(s) - 1) : s[k - 1] = " " /\ s[k] \in chars /\ s[k + 1] = " "

\* otherTitleSeparators.FindAllStringSubmatch(origTitle, -1)[0][1]: the text
\* before the last separator that a blank follows
HasSubmatch(s) == \E k \in 1..(Len(s) - 1) : s[k] \in finalPartChars /\ s[k + 1] = " "

FirstSubmatch(s) ==
  SubSeq(s, 1, (CHOOSE k \in 1..(Len(s) - 1) :
                  /\ s[k] \in finalPartChars /\ s[k + 1] = " "
                  /\ \A j \in (k + 1)..(Len(s) - 1) :
                       ~(s[j] \in finalPartChars /\ s[j + 1] = " ")) - 1)

\* separators.ReplaceAllString(origTitle, "")
WithoutSeparators(s) == SelectSeq(s, LAMBDA c : c \notin finalPartChars)

\* strings.Contains(curTitle, ": ")
ContainsColonBlank(s) == \E k \in 1..(Len(s) - 1) : s[k] = ":" /\ s[k + 1] = " "

\* strings.Index and strings.LastIndex of ":", 0 when there is none
IndexColon(s) ==
  IF \E k \in 1..Len(s) : s[k] = ":"
  THEN CHOOSE k \in 1..Len(s) : s[k] = ":" /\ \A j \in 1..(k - 1) : s[j] # ":"
  ELSE 0

LastIndexColon(s) ==
  IF \E k \in 1..Len(s) : s[k] = ":"
  THEN CHOOSE k \in 1..Len(s) : s[k] = ":" /\ \A j \in (k + 1)..Len(s) : s[j] # ":"
  ELSE 0

\* doc.title: the trimmed text of the first <title> that has one
RECURSIVE DocTitle(_, _)
DocTitle(titles, i) ==
  IF i > Len(titles) THEN <<>>
  ELSE IF TrimSpace(titles[i]) # <<>> THEN TrimSpace(titles[i])
  ELSE DocTitle(titles, i + 1)

\* origTitle: doc.title, or the inner text of the first <title>
TitleOrFirst(title, titles) ==
  IF title = <<>> /\ titles # <<>> THEN getInnerText(titles[1]) ELSE title

OrigTitle(titles) == TitleOrFirst(DocTitle(titles, 1), titles)

\* the branch of a title with a separator: remove the final part, and when
\* that leaves fewer than 3 words, ReplaceAllStringFunc with a function
\* that returns each match as it is
SeparatorTitleOf(submatch, origTitle) ==
  IF wordCount(submatch) < 3 THEN origTitle ELSE submatch

SeparatorTitle(origTitle) ==
  SeparatorTitleOf(IF HasSubmatch(origTitle) THEN FirstSubmatch(origTitle) ELSE origTitle,
                   origTitle)

\* the branch of a title with ": "
ColonTitleOf(curTitle, origTitle) ==
  IF wordCount(curTitle) < 3
  THEN SubSeq(origTitle, IndexColon(origTitle) + 1, Len(origTitle))
  ELSE IF wordCount(SubSeq(origTitle, 1, IndexColon(origTitle) - 1)) > 5 THEN origTitle
  ELSE curTitle

ColonTitle(origTitle, headings) ==
  IF \E i \in 1..Len(headings) : TrimSpace(headings[i]) = TrimSpace(origTitle)
  THEN origTitle
  ELSE ColonTitleOf(SubSeq(origTitle, LastIndexColon(origTitle) + 1, Len(origTitle)),
                    origTitle)

\* the branch of a title that is very long or very short
HeadingTitle(origTitle, hOnes) ==
  IF (RuneLen(origTitle) > 150 \/ RuneLen(origTitle) < 15) /\ Len(hOnes) = 1
  THEN getInnerText(hOnes[1])
  ELSE origTitle

TitleBranch(origTitle, hOnes, hTwos) ==
  IF MatchesBetweenBlanks(origTitle, finalPartChars) THEN SeparatorTitle(origTitle)
  ELSE IF ContainsColonBlank(origTitle) THEN ColonTitle(origTitle, hOnes \o hTwos)
  ELSE HeadingTitle(origTitle, hOnes)

titleHadHierarchicalSeparators(origTitle) ==
  /\ MatchesBetweenBlanks(origTitle, finalPartChars)
  /\ MatchesBetweenBlanks(origTitle, hierarchicalChars)

TitleUnchecked(curTitle, origTitle) == curTitle

\* the last step: a title of 4 words or fewer goes back to the original title
TitleChecked(curTitle, origTitle) ==
  IF /\ wordCount(curTitle) <= 4
     /\ \/ ~titleHadHierarchicalSeparators(origTitle)
        \/ wordCount(curTitle) # wordCount(WithoutSeparators(origTitle))
  THEN origTitle
  ELSE curTitle

getArticleTitleOf(origTitle, hOnes, hTwos) ==
  TitleChecked(NormalizeSpaces(TrimSpace(TitleBranch(origTitle, hOnes, hTwos))), origTitle)

getArticleTitle(titles, hOnes, hTwos) == getArticleTitleOf(OrigTitle(titles), hOnes, hTwos)

TitleTexts ==
  {<<>>, <<" ">>, <<"a">>, <<"a", " ", "b">>, <<"abcdefghijklmno">>,
   <<"word-of-151-letters">>, <<"a", " ", "-", " ", "b">>,
   <<"a", " ", "b", " ", "c", " ", "/", " ", "d">>,
   <<"a", " ", "b", " ", "c", " ", "|", " ", "d">>,
   <<"a", " ", "-", " ", "b", " ", "c", " ", "d", " ", "e", " ", "f">>,
   <<"a", " ", "/", " ", "b", " ", "c", " ", "d", " ", "e", " ", "f">>,
   <<"a", ":", " ", "b">>, <<"a", ":", " ", "b", " ", "c">>, <<"a", ":", "b">>,
   <<"abcdefghijklmno", ":", " ", "a", " ", "b", " ", "c">>}

HeadingTexts ==
  {<<>>, <<"h">>, <<" ", "h", " ", " ", "i", " ">>,
   <<"h", " ", "i", " ", "j", " ", "k">>, <<"h", " ", "i", " ", "j", " ", "k", " ", "l">>,
   <<"a", ":", " ", "b", " ", "c">>}

HeadingLists ==
  {<<>>} \cup {<<a>> : a \in HeadingTexts} \cup {<<a, <<"h">>>> : a \in HeadingTexts}

CallGetArticleTitle(titles, hOnes, hTwos) ==
  /\ pc = "new"
  /\ input' = [titles |-> titles, hOnes |-> hOnes, hTwos |-> hTwos]
  /\ output' = getArticleTitle(titles, hOnes, hTwos)
  /\ pc' = "title"
  /\ UNCHANGED <<treeVars, htmlSource, options, doc, flags, attempts, tried, result>>

NextTitle ==
  \E title \in TitleTexts, more \in {<<>>, <<<<"a">>>>}, hOnes \in HeadingLists,
     hTwos \in {<<>>, <<<<"a", ":", " ", "b">>>>} :
    CallGetArticleTitle(<<title>> \o more, hOnes, hTwos)

SpecTitle == InitParse /\ [][NextTitle]_vars

\* -------------------------------------------- Readability.unwrapNoscriptImages
\* imgExtensions.MatchString on an attribute value
imgExtensions(value) == value \in {"real.jpg", "p.jpg", "lazy.jpg", "a.png"}

containsImgNamed(attrs) ==
  \E j \in 1..Len(attrs) : attrs[j].name \in {"src", "srcset", "data-src", "data-srcset"}

\* slices.ContainsFunc(img.Attributes, ...): an attribute with the name of an
\* image source, or a value with the extension of an image
containsImg(attrs) ==
  \E j \in 1..Len(attrs) :
    \/ attrs[j].name \in {"src", "srcset", "data-src", "data-srcset"}
    \/ imgExtensions(attrs[j].value)

\* the first loop: every <img> without such an attribute is removed
RECURSIVE removePlaceholders(_, _, _)
removePlaceholders(h, imgs, i) ==
  IF i > Len(imgs) THEN h
  ELSE removePlaceholders(
         IF containsImg(h.Attributes[imgs[i]]) THEN h
         ELSE IF h.ParentNode[imgs[i]] = Nil THEN Panic(h)
         ELSE RemoveChild(h, h.ParentNode[imgs[i]], imgs[i]).h,
         imgs, i + 1)

\* Node.GetTextContent of an element: the texts under it, joined
RECURSIVE getText(_, _, _)
getText(h, nodes, i) ==
  IF i > Len(nodes) THEN <<>>
  ELSE (IF h.NodeType[nodes[i]] = textNode THEN h.innerHTML[nodes[i]]
        ELSE getText(h, h.ChildNodes[nodes[i]], 1))
         \o getText(h, nodes, i + 1)

GetTextContent(h, n) == getText(h, h.ChildNodes[n], 1)

RECURSIVE isSingleImage(_, _)
isSingleImage(h, n) ==
  IF h.LocalName[n] = "img" THEN TRUE
  ELSE IF Len(h.Children[n]) # 1 \/ TrimSpace(GetTextContent(h, n)) # <<>> THEN FALSE
  ELSE isSingleImage(h, h.Children[n][1])

\* Node.GetAttribute and Node.HasAttribute on the attributes of a node
HasAttribute(attrs, name) == \E j \in 1..Len(attrs) : attrs[j].name = name

GetAttribute(attrs, name) ==
  IF HasAttribute(attrs, name)
  THEN attrs[CHOOSE j \in 1..Len(attrs) :
               attrs[j].name = name /\ \A k \in (j + 1)..Len(attrs) : attrs[k].name # name].value
  ELSE ""

\* the old image's attribute attr on the new image's attributes
keepAttribute(attrs, attr) ==
  IF attr.value = "" THEN attrs
  ELSE IF ~(attr.name = "src" \/ attr.name = "srcset" \/ imgExtensions(attr.value)) THEN attrs
  ELSE IF GetAttribute(attrs, attr.name) = attr.value THEN attrs
  ELSE IF HasAttribute(attrs, attr.name)
  THEN SetAttributeAt(attrs, "data-old-" \o attr.name, attr.value)
  ELSE SetAttributeAt(attrs, attr.name, attr.value)

RECURSIVE keepAttributes(_, _, _)
keepAttributes(attrs, old, i) ==
  IF i > Len(old) THEN attrs
  ELSE keepAttributes(keepAttribute(attrs, old[i]), old, i + 1)

firstImg(h, n) ==
  IF h.LocalName[n] = "img" THEN n ELSE getElementsByTagName(h, n, "img")[1]

keepOldAttributes(h, prevImg, newImg) ==
  Set(h, "Attributes", newImg,
      keepAttributes(h.Attributes[newImg], h.Attributes[prevImg], 1))

\* the previous element of the <noscript> is replaced by the first element
\* of the <div>, when it is a single image
replaceByNoscriptImage(h, div, noscript, prevElement) ==
  IF prevElement # Nil /\ isSingleImage(h, prevElement)
  THEN IF h.ParentNode[noscript] = Nil THEN Panic(h)
       ELSE ReplaceChild(keepOldAttributes(h, firstImg(h, prevElement),
                                           getElementsByTagName(h, div, "img")[1]),
                         h.ParentNode[noscript], h.Children[div][1], prevElement)
  ELSE h

unwrapParsed(h, div, noscript) ==
  IF ~isSingleImage(h, div) THEN h
  ELSE replaceByNoscriptImage(h, div, noscript, h.PreviousElementSibling[noscript])

\* doc.createElementNode("div") and div.SetInnerHTML(noscript.GetInnerHTML())
unwrapNoscript(h, div, noscript) ==
  unwrapParsed(SetInnerHTML(Allocate(h, div, elementNode, "div"), div,
                            Tokenize(GetInnerHTML(h, noscript))),
               div, noscript)

\* the second loop, over the <noscript> elements the document had before it
RECURSIVE unwrapNoscripts(_, _, _)
unwrapNoscripts(h, noscripts, i) ==
  IF i > Len(noscripts) \/ h.panicked THEN h
  ELSE unwrapNoscripts(unwrapNoscript(h, NewNode(h), noscripts[i]), noscripts, i + 1)

unwrapImages(h, d) == unwrapNoscripts(h, getElementsByTagName(h, d, "noscript"), 1)

unwrapNoscriptImages(h, d) ==
  unwrapImages(removePlaceholders(h, getElementsByTagName(h, d, "img"), 1), d)

\* Parse, up to removeScripts: the size check, unwrapNoscriptImages and
\* removeScripts (getJSONLD, between the two, leaves the document as it is)
ParseUnwrap(h, d, opts) ==
  IF opts.maxElemsToParse > 0
     /\ Len(getElementsByTagName(h, d, "*")) > opts.maxElemsToParse
  THEN [h |-> h, err |-> errDocumentTooLarge]
  ELSE [h |-> removeScripts(unwrapNoscriptImages(h, d), d), err |-> ""]

\* the elements written before the <noscript>, and what the <noscript> holds
BeforePlaceholder ==
  {<<>>, <<"<", "img", "src=p.jpg", "/", ">">>, <<"<", "div", ">", "<", "/", "div", ">">>}

Placeholders ==
  {<<>>, <<"x">>, <<"<", "img", "/", ">">>, <<"<", "img", "class=lazy", "/", ">">>,
   <<"<", "img", "data-src=lazy.jpg", "/", ">">>, <<"<", "img", "alt=a.png", "/", ">">>,
   <<"<", "img", "src=", "/", ">">>, <<"<", "img", "src=p.jpg", "class=lazy", "/", ">">>,
   <<"<", "div", ">", "<", "img", "/", ">", "<", "/", "div", ">">>,
   <<"<", "div", ">", "<", "img", "data-src=lazy.jpg", "/", ">", "<", "/", "div", ">">>,
   <<"<", "img", "/", ">", "x">>}

InNoscript ==
  {<<"<", "img", "src=real.jpg", "/", ">">>,
   <<"<", "img", "src=real.jpg", ">">>,
   <<"<", "div", ">", "<", "img", "src=real.jpg", "/", ">", "<", "/", "div", ">">>,
   <<"<", "img", "src=real.jpg", "/", ">", "x">>,
   <<"<", "img", "src=real.jpg", "/", ">", "<", "img", "src=p.jpg", "/", ">">>}

ImagePages ==
  {<<"<", "body", ">">> \o b \o p \o <<"<", "noscript", ">">> \o n
     \o <<"<", "/", "noscript", ">", "x">> :
     b \in BeforePlaceholder, p \in Placeholders, n \in InNoscript}

ParseUnwrapped(e) ==
  /\ Store(e.h)
  /\ IF e.err # ""
     THEN Returned("error", e.err, Nil) /\ pc' = "done"
     ELSE UNCHANGED result /\ pc' = "scriptsRemoved"
  /\ UNCHANGED <<htmlSource, options, doc, flags, attempts, tried, lastCall, ops, fnVars>>

CallNewImages(src, opts) ==
  /\ pc = "new"
  /\ NewReturned(NewText(Heap, src, opts), src, opts)

CallParseUnwrap ==
  /\ pc = "ready"
  /\ ParseUnwrapped(ParseUnwrap(Heap, doc, options))

NextImages ==
  \/ \E src \in ImagePages, opts \in PageOptionSets : CallNewImages(src, opts)
  \/ CallParseUnwrap

SpecImages == InitPage /\ [][NextImages]_vars

\* --------------------------------------------- Readability.postProcessContent
\* hasContent.MatchString: the text ends in a character that is not white space
hasContent(text) == text # <<>> /\ text[Len(text)] # " "

isElementWithoutContent(h, n) ==
  /\ h.NodeType[n] = elementNode
  /\ TrimSpace(GetTextContent(h, n)) = <<>>
  /\ \/ Len(h.Children[n]) = 0
     \/ Len(h.Children[n]) = Len(getElementsByTagName(h, n, "br"))
                               + Len(getElementsByTagName(h, n, "hr"))

hasSingleTagInsideElement(h, element, tag) ==
  /\ Len(h.Children[element]) = 1
  /\ h.LocalName[h.Children[element][1]] = tag
  /\ ~\E i \in 1..Len(h.ChildNodes[element]) :
        /\ h.NodeType[h.ChildNodes[element][i]] = textNode
        /\ hasContent(h.innerHTML[h.ChildNodes[element][i]])

\* for n != nil && n.NextElementSibling == nil { n = n.ParentNode }
RECURSIVE nextOfParents(_, _)
nextOfParents(h, n) ==
  IF n = Nil THEN Nil
  ELSE IF h.NextElementSibling[n] # Nil THEN h.NextElementSibling[n]
  ELSE nextOfParents(h, h.ParentNode[n])

getNextNode(h, n, ignoreSelfAndKids) ==
  IF ~ignoreSelfAndKids /\ h.Children[n] # <<>> THEN h.Children[n][1]
  ELSE IF h.NextElementSibling[n] # Nil THEN h.NextElementSibling[n]
  ELSE nextOfParents(h, h.ParentNode[n])

\* strings.HasPrefix(node.GetId(), "readability")
hasReadabilityId(attrs) == GetAttribute(attrs, "id") = "readability-page-1"

\* child.SetAttribute for every attribute of node
withAttributesOf(h, node, child) ==
  Set(h, "Attributes", child, SetAttributes(h.Attributes[child], h.Attributes[node], 1))

\* node.ParentNode.ReplaceChild(child, node), child being node.Children[0]
hoistChild(h, node, child) ==
  ReplaceChild(withAttributesOf(h, node, child), h.ParentNode[node], child, node)

RECURSIVE simplifyFrom(_, _)

nodeSimplified(h, node) ==
  IF isElementWithoutContent(h, node)
  THEN simplifyFrom(RemoveChild(h, h.ParentNode[node], node).h, getNextNode(h, node, TRUE))
  ELSE IF hasSingleTagInsideElement(h, node, "div")
          \/ hasSingleTagInsideElement(h, node, "section")
  THEN simplifyFrom(hoistChild(h, node, h.Children[node][1]), h.Children[node][1])
  ELSE simplifyFrom(h, getNextNode(h, node, FALSE))

\* the loop of simplifyNestedElements, from node on
simplifyFrom(h, node) ==
  IF node = Nil \/ h.panicked THEN h
  ELSE IF /\ h.ParentNode[node] # Nil
          /\ h.LocalName[node] \in {"div", "section"}
          /\ ~hasReadabilityId(h.Attributes[node])
  THEN nodeSimplified(h, node)
  ELSE simplifyFrom(h, getNextNode(h, node, FALSE))

simplifyNestedElements(h, articleContent) == simplifyFrom(h, articleContent)

classesToPreserve == {"page"}

\* the class attribute of n after cleanClasses: one class name at most
cleanedAttributes(attrs) ==
  IF GetAttribute(attrs, "class") \in classesToPreserve THEN attrs
  ELSE SelectSeq(attrs, LAMBDA a : a.name # "class")

RECURSIVE cleanClasses(_, _)
RECURSIVE cleanClassesOf(_, _, _)
cleanClassesOf(h, children, i) ==
  IF i > Len(children) THEN h
  ELSE cleanClassesOf(cleanClasses(h, children[i]), children, i + 1)

cleanClasses(h, n) ==
  cleanClassesOf(Set(h, "Attributes", n, cleanedAttributes(h.Attributes[n])),
                 h.Children[n], 1)

\* postProcessContent with the default options, on an article without a link
\* and without a media element, in which fixRelativeUris finds nothing to fix
postProcessContent(h, articleContent) ==
  cleanClasses(simplifyNestedElements(h, articleContent), articleContent)

\* what an article is made of
Fragments ==
  {<<>>, <<"x">>, <<" ">>, <<"<", "br", "/", ">">>,
   <<"<", "div", ">", "<", "/", "div", ">">>,
   <<"<", "p", ">", "x", "<", "/", "p", ">">>,
   <<"<", "section", ">", "x", "<", "/", "section", ">">>,
   <<"<", "div", "class=lazy", ">", "<", "div", ">", "x", "<", "/", "div", ">",
     "<", "/", "div", ">">>,
   <<"<", "div", "id=readability-page-1", "class=page", ">", "<", "div", ">",
     "<", "/", "div", ">", "<", "/", "div", ">">>}

ArticleSources ==
  {<<"<", "div", ">">> \o a \o b \o c \o <<"<", "/", "div", ">">> :
     a \in Fragments \ {<<>>}, b \in Fragments, c \in {<<>>, <<"<", "br", "/", ">">>}}

\* articleContent: a <div> that has no parent, with the article in it
NewArticle(h, articleContent, src) ==
  SetInnerHTML(Allocate(h, articleContent, elementNode, "div"), articleContent, Tokenize(src))

CallNewArticle(src) ==
  /\ pc = "new"
  /\ Store(NewArticle(Heap, NewNode(Heap), src))
  /\ Returned("Result", "", NewNode(Heap))
  /\ htmlSource' = src
  /\ output' = <<>>
  /\ pc' = "article"
  /\ UNCHANGED <<options, doc, flags, attempts, tried, lastCall, ops, input>>

\* postProcessContent(articleContent), for the first and for the second time;
\* output keeps what the article was after each call
PostProcessed(h) ==
  /\ Store(h)
  /\ output' = Append(output, GetInnerHTML(h, result.articleContent))
  /\ pc' = IF pc = "article" THEN "processed" ELSE "processedTwice"
  /\ UNCHANGED <<htmlSource, options, doc, flags, attempts, tried, result, lastCall, ops, input>>

CallPostProcessContent ==
  /\ pc \in {"article", "processed"}
  /\ PostProcessed(postProcessContent(Heap, result.articleContent))

NextPostProcess ==
  \/ \E src \in ArticleSources : CallNewArticle(src)
  \/ CallPostProcessContent

SpecPostProcess == InitPage /\ [][NextPostProcess]_vars

\* ------------------------------------------- grabArticle: the score of a text
\* len(commas.Split(innerText, -1)): the parts of the text between its commas
commasSplit(innerText) ==
  1 + Cardinality({k \in 1..Len(innerText) : innerText[k] = ","})

MinOf(a, b) == IF a < b THEN a ELSE b

\* contentScore of an element to score: one point, the commas, and one
\* point for every 100 characters, up to 3
contentScoreOf(innerText) ==
  1 + commasSplit(innerText) + MinOf(RuneLen(innerText) \div 100, 3)

\* the divider of the level of an ancestor, the parent being level 0
scoreDivider(level) == IF level = 0 THEN 1 ELSE IF level = 1 THEN 2 ELSE level * 3

\* the ancestor at this level takes a score: it is an element whose parent
\* is an element
takesScore(ancestors, i) ==
  ancestors[i] # "" /\ i < Len(ancestors) /\ ancestors[i + 1] # ""

\* what the loop adds to the score of each ancestor, in 36ths of a point;
\* ancestors holds the tag names from the parent up, "" for the document
addedScores(ancestors, contentScore) ==
  [i \in 1..MinOf(Len(ancestors), 5) |->
     IF takesScore(ancestors, i) THEN (36 * contentScore) \div scoreDivider(i - 1) ELSE 0]

\* one turn of the loop over elementsToScore, for an element with a parent
scoreElement(innerText, ancestors) ==
  IF RuneLen(innerText) < 25 \/ ancestors = <<>>
  THEN [scored |-> FALSE, contentScore |-> 0, added |-> <<>>]
  ELSE [scored |-> TRUE, contentScore |-> contentScoreOf(innerText),
        added |-> addedScores(ancestors, contentScoreOf(innerText))]

ScoredWords == {"x", ",", " ", "abcdefghijklmno", "word-of-151-letters"}

ScoredTexts ==
  {<<a, b>> : a \in ScoredWords, b \in ScoredWords}
    \cup {<<a, b, c>> : a \in ScoredWords \ {"x"}, b \in ScoredWords, c \in ScoredWords \ {" "}}

AncestorLists ==
  {<<"">>, <<"body", "html", "">>, <<"div", "body", "html", "">>,
   <<"div", "div", "div", "div", "div", "body", "html", "">>}

CallScoreElement(textContent, ancestors) ==
  /\ pc = "new"
  /\ input' = [innerText |-> getInnerText(textContent), ancestors |-> ancestors]
  /\ output' = scoreElement(getInnerText(textContent), ancestors)
  /\ pc' = "scored"
  /\ UNCHANGED <<treeVars, htmlSource, options, doc, flags, attempts, tried, result>>

NextScore ==
  \E textContent \in ScoredTexts, ancestors \in AncestorLists :
    CallScoreElement(textContent, ancestors)

SpecScore == InitParse /\ [][NextScore]_vars

\* ------------------------------------------------ Readability.markDataTables
\* strconv.Atoi on the value of rowspan or colspan: 0 with an error for a
\* value that is no number
Atoi(value) ==
  CASE value = "2" -> 2 [] value = "5" -> 5 [] value = "10" -> 10 [] OTHER -> 0

\* rows += rs, or 1 when rowspan is absent, 0 or no number
spanOf(value) == IF value # "" /\ Atoi(value) # 0 THEN Atoi(value) ELSE 1

RECURSIVE columnsInThisRow(_, _)
columnsInThisRow(cells, j) ==
  IF j > Len(cells) THEN 0 ELSE spanOf(cells[j]) + columnsInThisRow(cells, j + 1)

MaxOf(a, b) == IF a > b THEN a ELSE b

\* getRowAndColumnCount; trs holds, for each <tr> under the table, its
\* rowspan and the colspan of each of its <td>
RECURSIVE rowCount(_, _)
rowCount(trs, i) == IF i > Len(trs) THEN 0 ELSE spanOf(trs[i].rowspan) + rowCount(trs, i + 1)

RECURSIVE columnCount(_, _)
columnCount(trs, i) ==
  IF i > Len(trs) THEN 0
  ELSE MaxOf(columnsInThisRow(trs[i].cells, 1), columnCount(trs, i + 1))

\* table.ReadabilityDataTable: nil, or a value
dataTableNil == [set |-> FALSE, value |-> FALSE]

dataTable(value) == [set |-> TRUE, value |-> value]

\* the caption: marked, and the loop goes on with the same table
markCaption(mark, table) ==
  IF table.caption = "children" THEN dataTable(TRUE) ELSE mark

\* the nested table: marked, and the loop goes on with the same table
markNested(mark, table) == IF table.nested THEN dataTable(FALSE) ELSE mark

markBySize(mark, rows, columns) ==
  IF rows >= 10 \/ columns > 4 THEN dataTable(TRUE) ELSE dataTable(rows * columns > 10)

markDescendants(mark, table) ==
  IF table.descendant THEN dataTable(TRUE)
  ELSE markBySize(markNested(mark, table), rowCount(table.trs, 1), columnCount(table.trs, 1))

\* one turn of the loop of markDataTables
markDataTable(table) ==
  IF table.role = "presentation" THEN dataTable(FALSE)
  ELSE IF table.datatable = "0" THEN dataTable(FALSE)
  ELSE IF table.summary # "" THEN dataTable(TRUE)
  ELSE markDescendants(markCaption(dataTableNil, table), table)

TableRows ==
  {[rowspan |-> "", cells |-> <<>>], [rowspan |-> "", cells |-> <<"", "">>],
   [rowspan |-> "10", cells |-> <<"">>], [rowspan |-> "x", cells |-> <<"5">>],
   [rowspan |-> "2", cells |-> <<"", "2", "x", "">>]}

TableRowLists == {<<>>} \cup {<<a>> : a \in TableRows} \cup {<<a, b>> : a \in TableRows, b \in TableRows}

\* a <table>: three attributes, its <caption> (none, without or with child
\* nodes), whether a col, colgroup, tfoot, thead or th lies under it, whether
\* a <table> lies under it, and its rows
Tables ==
  [role : {"", "presentation"}, datatable : {"", "0"}, summary : {"", "s"},
   caption : {"none", "empty", "children"}, descendant : BOOLEAN, nested : BOOLEAN,
   trs : TableRowLists]

CallMarkDataTables(table) ==
  /\ pc = "new"
  /\ input' = table
  /\ output' = markDataTable(table)
  /\ pc' = "marked"
  /\ UNCHANGED <<treeVars, htmlSource, options, doc, flags, attempts, tried, result>>

NextTables == \E table \in Tables : CallMarkDataTables(table)

SpecTables == InitParse /\ [][NextTables]_vars

\* -------------------------------------------- Readability.cleanConditionally
\* hasAncestorTag(n, tag, maxDepth, filter), for a node whose nearest such
\* ancestor is at the given level (1 for the parent, 0 for none): the loop
\* looks at the parent while depth <= maxDepth, depth counting from 0
hasAncestorTag(level, maxDepth) ==
  level >= 1 /\ (maxDepth <= 0 \/ level <= maxDepth + 1)

\* isList: the tag is ul or ol, or more than 0.9 of the text is in lists;
\* listShare is the share of the lists in the text, in tenths
isListOf(tag, n) == tag \in {"ul", "ol"} \/ n.listShare > 9

\* the seven conditions; densities are in tenths, li is the number of <li>
haveToRemove(n, isList, weight) ==
  \/ n.img > 1 /\ 2 * n.p < n.img /\ ~hasAncestorTag(n.figureAt, 3)
  \/ ~isList /\ n.li - 100 > n.p
  \/ n.input > n.p \div 3
  \/ /\ ~isList /\ n.headingDensity < 9 /\ n.contentLength < 25
     /\ (n.img = 0 \/ n.img > 2) /\ ~hasAncestorTag(n.figureAt, 3)
  \/ ~isList /\ weight < 25 /\ n.linkDensity > 2
  \/ weight >= 25 /\ n.linkDensity > 5
  \/ (n.embedCount = 1 /\ n.contentLength < 75) \/ n.embedCount > 1

\* a list that is to be removed stays when no child has more than one child
\* and there are as many images as <li>
removeList(n, remove) ==
  IF n.wideChild THEN remove ELSE IF n.img = n.li THEN FALSE ELSE remove

removeChecked(n, isList, remove) == IF isList /\ remove THEN removeList(n, remove) ELSE remove

\* fewer than 10 commas: the counts decide, unless an embed is a video
removeByCounts(n, isList, weight) ==
  IF n.embedCount > 0 /\ n.videoEmbed THEN FALSE
  ELSE removeChecked(n, isList, haveToRemove(n, isList, weight))

removeWeighted(n, isList, weight) ==
  IF weight < 0 THEN TRUE
  ELSE IF n.commas < 10 THEN removeByCounts(n, isList, weight)
  ELSE FALSE

\* getClassWeight: 0 when WEIGHT_CLASSES is cleared
classWeightOf(fl, n) == IF flagIsActive(fl, flagWeightClasses) THEN n.weight ELSE 0

\* the filter of cleanConditionally on a node n with the given tag
removeNode(fl, tag, n) ==
  IF tag = "table" /\ n.dataTable THEN FALSE
  ELSE IF n.dataTableAncestor THEN FALSE
  ELSE IF hasAncestorTag(n.codeAt, 3) THEN FALSE
  ELSE removeWeighted(n, isListOf(tag, n), classWeightOf(fl, n))

cleanConditionally(fl, tag, n) ==
  IF ~flagIsActive(fl, flagCleanConditionally) THEN FALSE ELSE removeNode(fl, tag, n)

\* the counts of a node: nothing ominous
plainCounts ==
  [p |-> 1, img |-> 0, li |-> 0, input |-> 0, headingDensity |-> 0, linkDensity |-> 0,
   contentLength |-> 100, embedCount |-> 0, videoEmbed |-> FALSE, figureAt |-> 0,
   wideChild |-> FALSE, listShare |-> 0]

\* and one or two counts changed
CountSets ==
  {plainCounts,
   [plainCounts EXCEPT !.img = 3],
   [plainCounts EXCEPT !.img = 3, !.figureAt = 1],
   [plainCounts EXCEPT !.li = 102],
   [plainCounts EXCEPT !.li = 102, !.listShare = 10],
   [plainCounts EXCEPT !.input = 1],
   [plainCounts EXCEPT !.contentLength = 10],
   [plainCounts EXCEPT !.contentLength = 10, !.headingDensity = 10],
   [plainCounts EXCEPT !.linkDensity = 3],
   [plainCounts EXCEPT !.linkDensity = 6],
   [plainCounts EXCEPT !.embedCount = 1, !.contentLength = 50],
   [plainCounts EXCEPT !.embedCount = 2],
   [plainCounts EXCEPT !.embedCount = 2, !.videoEmbed = TRUE],
   [plainCounts EXCEPT !.p = 0, !.img = 2, !.li = 2],
   [plainCounts EXCEPT !.p = 0, !.img = 2, !.li = 2, !.wideChild = TRUE]}

CleanedNodes ==
  {[c \in {"dataTable", "dataTableAncestor", "codeAt", "weight", "commas"} \cup DOMAIN counts |->
      IF c = "dataTable" THEN t ELSE IF c = "dataTableAncestor" THEN a
      ELSE IF c = "codeAt" THEN code ELSE IF c = "weight" THEN w
      ELSE IF c = "commas" THEN commas ELSE counts[c]] :
     t \in BOOLEAN, a \in BOOLEAN, code \in {0, 1, 4, 5}, w \in {0 - 25, 0, 25},
     commas \in {0, 10}, counts \in CountSets}

CallCleanConditionally(fl, tag, n) ==
  /\ pc = "new"
  /\ input' = [flags |-> fl, tag |-> tag, n |-> n]
  /\ output' = cleanConditionally(fl, tag, n)
  /\ pc' = "cleaned"
  /\ UNCHANGED <<treeVars, htmlSource, options, doc, flags, attempts, tried, result>>

NextClean ==
  \E fl \in {flagCleanConditionally, flagWeightClasses,
             flagWeightClasses + flagCleanConditionally},
     tag \in {"div", "ul", "table"}, n \in CleanedNodes :
    CallCleanConditionally(fl, tag, n)

SpecClean == InitParse /\ [][NextClean]_vars

\* ------------------------------------------------------ IsProbablyReaderable
defaultMinScore == 20
defaultMinContentLength == 140

\* math.Sqrt, exact on the squares, which are the lengths used below
Sqrt(n) == CHOOSE r \in 0..n : r * r <= n /\ (r + 1) * (r + 1) > n

\* the parents of the <br> of querySelectorAll(doc, "div > br"): the div
\* is appended once for each of its <br>
RECURSIVE brParents(_)
brParents(divs) ==
  IF divs = <<>> THEN <<>>
  ELSE [i \in 1..Head(divs).brs |-> Head(divs)] \o brParents(Tail(divs))

\* the callback up to the length test: the node is visible, not unlikely,
\* no <p> in a <li>, and long enough
addsToScore(n) ==
  n.visible /\ ~n.unlikely /\ ~n.liP /\ n.length >= defaultMinContentLength

nodeScore(n) == Sqrt(n.length - defaultMinContentLength)

\* slices.ContainsFunc(nodes, callback) with the accumulator score
RECURSIVE ContainsFunc(_, _)
ContainsFunc(nodes, score) ==
  IF nodes = <<>> THEN FALSE
  ELSE IF ~addsToScore(Head(nodes)) THEN ContainsFunc(Tail(nodes), score)
  ELSE IF score + nodeScore(Head(nodes)) > defaultMinScore THEN TRUE
  ELSE ContainsFunc(Tail(nodes), score + nodeScore(Head(nodes)))

IsProbablyReaderable(ps, divs) == ContainsFunc(ps \o brParents(divs), 0)

\* text lengths: too short, and 140 + 11 * 11, 140 + 21 * 21
ReaderableLengths == {100, 261, 581}

Paragraphs ==
  [visible : BOOLEAN, unlikely : BOOLEAN, liP : BOOLEAN, length : ReaderableLengths, brs : {0}]

BrDivs ==
  [visible : BOOLEAN, unlikely : BOOLEAN, liP : {FALSE}, length : ReaderableLengths,
   brs : {1, 2}]

CallIsProbablyReaderable(ps, divs) ==
  /\ pc = "new"
  /\ input' = [ps |-> ps, divs |-> divs]
  /\ output' = IsProbablyReaderable(ps, divs)
  /\ pc' = "readerable"
  /\ UNCHANGED <<treeVars, htmlSource, options, doc, flags, attempts, tried, result>>

NextReaderable ==
  \E ps \in {<<>>} \cup {<<n>> : n \in Paragraphs},
     divs \in {<<>>} \cup {<<n>> : n \in BrDivs} \cup {<<n, m>> : n \in BrDivs, m \in BrDivs} :
    CallIsProbablyReaderable(ps, divs)

SpecReaderable == InitParse /\ [][NextReaderable]_vars

\* ------------------------------------------- grabArticle: the top candidates
MaxCandidates == 3
MaxTopCandidates == 2

\* candidateScore = ContentScore * (1 - getLinkDensity(candidate)); the link
\* density is in halves and so is the score
candidateScore(candidate) == candidate.contentScore * (2 - candidate.linkDensity)

\* a comparison that lets an equal score pass
topIndexOrEqual(score, top, contentScore, nb) ==
  IF \E t \in 1..nb : t > Len(top) \/ score >= contentScore[top[t]]
  THEN CHOOSE t \in 1..nb :
         /\ t > Len(top) \/ score >= contentScore[top[t]]
         /\ \A u \in 1..(t - 1) : ~(u > Len(top) \/ score >= contentScore[top[u]])
  ELSE 0

\* the loop over t: the first t < nbTopCandidates with no top candidate at t
\* or one of a smaller score; 0 when the loop ends without a break
topIndex(score, top, contentScore, nb) ==
  IF \E t \in 1..nb : t > Len(top) \/ score > contentScore[top[t]]
  THEN CHOOSE t \in 1..nb :
         /\ t > Len(top) \/ score > contentScore[top[t]]
         /\ \A u \in 1..(t - 1) : ~(u > Len(top) \/ score > contentScore[top[u]])
  ELSE 0

\* the list is cut to nbTopCandidates after an insert
cutTopCandidates(top, nb) == IF Len(top) > nb THEN SubSeq(top, 1, Len(top) - 1) ELSE top

insertTopCandidate(c, t, top, nb) ==
  IF t = 0 THEN top ELSE cutTopCandidates(insert(c, t, top), nb)

\* one round of the loop over the candidates: the score of candidate c is
\* scaled and stored, and the candidate finds its place
scaledScores(o, c, score) == [o.contentScore EXCEPT ![c] = score]

topCandidateStep(o, c, score, nb) ==
  [c |-> c + 1,
   contentScore |-> scaledScores(o, c, score),
   topCandidates |->
     insertTopCandidate(c, topIndex(score, o.topCandidates, scaledScores(o, c, score), nb),
                        o.topCandidates, nb)]

\* candidates, as the scoring loop leaves them
ScoredCandidates == [contentScore : {0 - 2, 1, 2}, linkDensity : {0, 1}]

CandidateLists == UNION {[1..k -> ScoredCandidates] : k \in 0..MaxCandidates}

CallTopCandidates(candidates, nb) ==
  /\ pc = "new"
  /\ input' = [candidates |-> candidates, nbTopCandidates |-> nb]
  /\ output' = [c |-> 1, topCandidates |-> <<>>,
                contentScore |-> [i \in 1..Len(candidates) |-> candidates[i].contentScore]]
  /\ pc' = "candidates"
  /\ UNCHANGED <<treeVars, htmlSource, options, doc, flags, attempts, tried, result>>

NextCandidate ==
  /\ pc = "candidates"
  /\ output.c <= Len(input.candidates)
  /\ output' = topCandidateStep(output, output.c, candidateScore(input.candidates[output.c]),
                                input.nbTopCandidates)
  /\ UNCHANGED <<treeVars, htmlSource, options, doc, flags, attempts, tried, result, pc, input>>

NextTop ==
  \/ \E candidates \in CandidateLists, nb \in 1..MaxTopCandidates :
       CallTopCandidates(candidates, nb)
  \/ NextCandidate

SpecTop == InitParse /\ [][NextTop]_vars

\* ------------------------------- grabArticle: the scores and the top candidate
defaultNTopCandidates == 5
defaultTagsToScore == {"section", "h2", "h3", "h4", "h5", "h6", "p", "td", "pre"}

\* The scoring records are kept beside the tree: scored is the set of the
\* nodes whose ReadabilityNode is not nil, contentScore their ContentScore
\* in 36ths, candidates the candidates of the attempt that is running.
NoScores(pool) == [scored |-> {}, contentScore |-> [n \in pool |-> 0], candidates |-> <<>>]

\* the candidates are those of one attempt, the records stay on the nodes
NewAttemptScores(s) == [s EXCEPT !.candidates = <<>>]

\* the walk of the first loop: getNextNode(n, false) until nil
RECURSIVE nodesFrom(_, _)
nodesFrom(h, n) ==
  IF n = Nil THEN <<>> ELSE <<n>> \o nodesFrom(h, getNextNode(h, n, FALSE))

\* The documents of the model have no node that the first loop removes or
\* rewrites (no attribute, no <div>, no heading, no element without
\* content): the loop collects the elements whose tag is to be scored.
elementsToScore(h, d) ==
  SelectSeq(nodesFrom(h, h.DocumentElement[d]),
            LAMBDA n : h.LocalName[n] \in defaultTagsToScore)

RECURSIVE getNodeAncestors(_, _, _)
getNodeAncestors(h, n, maxDepth) ==
  IF h.ParentNode[n] = Nil THEN <<>>
  ELSE IF maxDepth = 1 THEN <<h.ParentNode[n]>>
  ELSE <<h.ParentNode[n]>> \o getNodeAncestors(h, h.ParentNode[n], maxDepth - 1)

\* initializeNode: the score a tag begins with; the nodes have neither
\* class nor id, so that getClassWeight is 0
tagScore(tag) ==
  CASE tag = "div" -> 5
    [] tag \in {"pre", "td", "blockquote"} -> 3
    [] tag \in {"address", "ol", "ul", "dl", "dd", "dt", "li", "form"} -> 0 - 3
    [] tag \in {"h1", "h2", "h3", "h4", "h5", "h6", "th"} -> 0 - 5
    [] OTHER -> 0

initializeNode(s, h, n) ==
  [s EXCEPT !.scored = @ \cup {n}, !.contentScore[n] = 36 * tagScore(h.LocalName[n])]

\* if ancestor.ReadabilityNode == nil { initializeNode; candidates = append }
initializeCandidate(s, h, ancestor) ==
  IF ancestor \in s.scored THEN s
  ELSE [initializeNode(s, h, ancestor) EXCEPT !.candidates = Append(@, ancestor)]

addScore(s, ancestor, added) == [s EXCEPT !.contentScore[ancestor] = @ + added]

\* an ancestor without tag name, without parent, or whose parent has no
\* tag name is passed over
ancestorPassedOver(h, ancestor) ==
  \/ h.LocalName[ancestor] = ""
  \/ h.ParentNode[ancestor] = Nil
  \/ h.LocalName[h.ParentNode[ancestor]] = ""

RECURSIVE scoreAncestors(_, _, _, _, _)
scoreAncestors(s, h, ancestors, level, contentScore) ==
  IF level >= Len(ancestors) THEN s
  ELSE IF ancestorPassedOver(h, ancestors[level + 1])
  THEN scoreAncestors(s, h, ancestors, level + 1, contentScore)
  ELSE scoreAncestors(addScore(initializeCandidate(s, h, ancestors[level + 1]),
                               ancestors[level + 1],
                               (36 * contentScore) \div scoreDivider(level)),
                      h, ancestors, level + 1, contentScore)

scoreOne(s, h, e) ==
  IF \/ h.ParentNode[e] = Nil
     \/ RuneLen(getInnerText(GetTextContent(h, e))) < 25
     \/ getNodeAncestors(h, e, 5) = <<>>
  THEN s
  ELSE scoreAncestors(s, h, getNodeAncestors(h, e, 5), 0,
                      contentScoreOf(getInnerText(GetTextContent(h, e))))

RECURSIVE scoreAll(_, _, _, _)
scoreAll(s, h, elems, i) ==
  IF i > Len(elems) THEN s ELSE scoreAll(scoreOne(s, h, elems[i]), h, elems, i + 1)

\* getLinkDensity, as the pair of the length of the text of the links and
\* the length of the text; the coefficient of a link to a fragment is left out
RECURSIVE linkLength(_, _, _)
linkLength(h, links, i) ==
  IF i > Len(links) THEN 0
  ELSE RuneLen(getInnerText(GetTextContent(h, links[i]))) + linkLength(h, links, i + 1)

\* ContentScore * (1 - getLinkDensity(candidate))
scaledByLinks(score, links, text) ==
  IF text = 0 THEN score ELSE (score * (text - links)) \div text

scaledScore(s, h, candidate) ==
  scaledByLinks(s.contentScore[candidate],
                linkLength(h, getElementsByTagName(h, candidate, "a"), 1),
                RuneLen(getInnerText(GetTextContent(h, candidate))))

\* the loop over the candidates: r is the scores and the top candidates
scaleCandidate(r, h, candidate) ==
  [r EXCEPT !.s.contentScore[candidate] = scaledScore(r.s, h, candidate)]

placeCandidate(r, candidate, nb) ==
  [r EXCEPT !.topCandidates =
     insertTopCandidate(candidate,
                        topIndex(r.s.contentScore[candidate], @, r.s.contentScore, nb),
                        @, nb)]

RECURSIVE topCandidatesLoop(_, _, _, _)
topCandidatesLoop(r, h, c, nb) ==
  IF c > Len(r.s.candidates) THEN r
  ELSE topCandidatesLoop(placeCandidate(scaleCandidate(r, h, r.s.candidates[c]),
                                        r.s.candidates[c], nb),
                         h, c + 1, nb)

topCandidatesOf(s, h, nb) == topCandidatesLoop([s |-> s, topCandidates |-> <<>>], h, 1, nb)

\* a / b >= 0.75 in floating point: a quotient by 0 is +Inf, -Inf or NaN
scoreRatioAtLeast(a, b) ==
  IF b > 0 THEN 4 * a >= 3 * b ELSE IF b < 0 THEN 4 * a <= 3 * b ELSE a > 0

\* the other top candidates whose score is close to that of the first, and
\* the lists of all their ancestors
alternativeCandidates(s, top) ==
  SelectSeq(Tail(top), LAMBDA c : scoreRatioAtLeast(s.contentScore[c], s.contentScore[top[1]]))

alternativeCandidateAncestors(s, h, top) ==
  [i \in 1..Len(alternativeCandidates(s, top)) |->
     getNodeAncestors(h, alternativeCandidates(s, top)[i], 0)]

MINIMUM_TOPCANDIDATES == 3

listsContainingThisAncestor(lists, ancestor) ==
  Cardinality({i \in 1..Len(lists) : \E j \in 1..Len(lists[i]) : lists[i][j] = ancestor})

\* A walk gives the top candidate it ends with, or reads the TagName of a
\* nil parentOfTopCandidate.
WalkEnds(topCandidate) == [topCandidate |-> topCandidate, nilDereference |-> FALSE]
WalkFails(topCandidate) == [topCandidate |-> topCandidate, nilDereference |-> TRUE]

\* for parentOfTopCandidate.TagName != "BODY": the search of an ancestor
\* that at least three of the lists hold
RECURSIVE sharedAncestorWalk(_, _, _, _)
sharedAncestorWalk(h, lists, parentOfTopCandidate, topCandidate) ==
  IF parentOfTopCandidate = Nil THEN WalkFails(topCandidate)
  ELSE IF h.LocalName[parentOfTopCandidate] = "body" THEN WalkEnds(topCandidate)
  ELSE IF listsContainingThisAncestor(lists, parentOfTopCandidate) >= MINIMUM_TOPCANDIDATES
  THEN WalkEnds(parentOfTopCandidate)
  ELSE sharedAncestorWalk(h, lists, h.ParentNode[parentOfTopCandidate], topCandidate)

\* the search of a parent whose score is higher; threshold is three times
\* the scoreThreshold
RECURSIVE risingScoreWalk(_, _, _, _, _, _)
risingScoreWalk(s, h, parentOfTopCandidate, lastScore, threshold, topCandidate) ==
  IF parentOfTopCandidate = Nil THEN WalkFails(topCandidate)
  ELSE IF h.LocalName[parentOfTopCandidate] = "body" THEN WalkEnds(topCandidate)
  ELSE IF parentOfTopCandidate \notin s.scored
  THEN risingScoreWalk(s, h, h.ParentNode[parentOfTopCandidate], lastScore, threshold,
                       topCandidate)
  ELSE IF 3 * s.contentScore[parentOfTopCandidate] < threshold THEN WalkEnds(topCandidate)
  ELSE IF s.contentScore[parentOfTopCandidate] > lastScore
  THEN WalkEnds(parentOfTopCandidate)
  ELSE risingScoreWalk(s, h, h.ParentNode[parentOfTopCandidate],
                       s.contentScore[parentOfTopCandidate], threshold, topCandidate)

\* the top candidate that is an only child gives way to its parent
RECURSIVE onlyChildWalk(_, _)
onlyChildWalk(h, topCandidate) ==
  IF h.ParentNode[topCandidate] = Nil THEN WalkFails(topCandidate)
  ELSE IF /\ h.LocalName[h.ParentNode[topCandidate]] # "body"
          /\ Len(h.Children[h.ParentNode[topCandidate]]) = 1
  THEN onlyChildWalk(h, h.ParentNode[topCandidate])
  ELSE WalkEnds(topCandidate)

\* the choice so far: the scores, the top candidate, and whether a walk failed
WalkChoice(s, w) == [s |-> s, topCandidate |-> w.topCandidate, nilDereference |-> w.nilDereference]

\* if topCandidate.ReadabilityNode == nil { r.initializeNode(topCandidate) }
initializeChosen(c, h) ==
  IF c.nilDereference \/ c.topCandidate \in c.s.scored THEN c
  ELSE [c EXCEPT !.s = initializeNode(c.s, h, c.topCandidate)]

chooseShared(s, h, top) ==
  initializeChosen(
    WalkChoice(s, IF Len(alternativeCandidateAncestors(s, h, top)) >= MINIMUM_TOPCANDIDATES
               THEN sharedAncestorWalk(h, alternativeCandidateAncestors(s, h, top),
                                       h.ParentNode[top[1]], top[1])
               ELSE WalkEnds(top[1])),
    h)

chooseRising(c, h) ==
  IF c.nilDereference THEN c
  ELSE WalkChoice(c.s, risingScoreWalk(c.s, h, h.ParentNode[c.topCandidate],
                                   c.s.contentScore[c.topCandidate],
                                   c.s.contentScore[c.topCandidate], c.topCandidate))

chooseOnlyChild(c, h) ==
  IF c.nilDereference THEN c
  ELSE initializeChosen(WalkChoice(c.s, onlyChildWalk(h, c.topCandidate)), h)

\* the branch of a top candidate that is not the body
chooseTopCandidate(s, h, top) == chooseOnlyChild(chooseRising(chooseShared(s, h, top), h), h)

\* no top candidate, or the body: a new DIV takes the children of the page
needsNewTopCandidate(h, top) == top = <<>> \/ h.LocalName[top[1]] = "body"

\* g is the attempt so far: the nodes, the scores, the top candidate and
\* whether a walk failed
newTopCandidate(h, s, page, topCandidate) ==
  [h |-> CreateTopCandidate(h, page, topCandidate),
   s |-> initializeNode(s, Allocate(h, topCandidate, elementNode, "div"), topCandidate),
   topCandidate |-> topCandidate, nilDereference |-> FALSE, created |-> TRUE]

chosenTopCandidate(h, c) ==
  [h |-> h, s |-> c.s, topCandidate |-> c.topCandidate,
   nilDereference |-> c.nilDereference, created |-> FALSE]

selectTopCandidate(h, page, r) ==
  IF needsNewTopCandidate(h, r.topCandidates)
  THEN newTopCandidate(h, r.s, page, NewNode(h))
  ELSE chosenTopCandidate(h, chooseTopCandidate(r.s, h, r.topCandidates))

\* the sibling loop: a sibling joins the article when it is the top
\* candidate, has a score of at least max(10, 0.2 of the top score), or is
\* a <p> of more than 80 characters (the documents have neither link nor
\* full stop)
alterToDiveExceptions == {"div", "article", "section", "p"}

siblingJoins(g, sibling) ==
  \/ sibling = g.topCandidate
  \/ /\ sibling \in g.s.scored
     /\ g.s.contentScore[sibling] >= 360
     /\ 5 * g.s.contentScore[sibling] >= g.s.contentScore[g.topCandidate]
  \/ /\ g.h.LocalName[sibling] = "p"
     /\ RuneLen(getInnerText(GetTextContent(g.h, sibling))) > 80

\* setNodeTag(sibling, "DIV") unless the tag is an exception
alteredToDiv(h, sibling) ==
  IF h.LocalName[sibling] \in alterToDiveExceptions THEN h
  ELSE Set(h, "LocalName", sibling, "div")

RECURSIVE appendSiblings(_, _, _, _)
appendSiblings(g, siblings, i, articleContent) ==
  IF i > Len(siblings) THEN g
  ELSE IF siblingJoins(g, siblings[i])
  THEN appendSiblings([g EXCEPT !.h = AppendChild(alteredToDiv(g.h, siblings[i]),
                                                  articleContent, siblings[i])],
                      siblings, i + 1, articleContent)
  ELSE appendSiblings(g, siblings, i + 1, articleContent)

\* the page of the article: the top candidate that was created, or a new DIV
\* that takes the children of the article
pageAttributes == <<[name |-> "id", value |-> "readability-page-1"],
                    [name |-> "class", value |-> "page"]>>

wrapArticle(h, articleContent, div) ==
  Set(AppendChild(MoveChildren(Allocate(h, div, elementNode, "div"), articleContent, div),
                  articleContent, div),
      "Attributes", div, pageAttributes)

pagedArticle(g, articleContent) ==
  [g EXCEPT !.h = IF g.created THEN Set(g.h, "Attributes", g.topCandidate, pageAttributes)
                  ELSE wrapArticle(g.h, articleContent, NewNode(g.h))]

withArticleContent(g, articleContent) ==
  [h |-> g.h, s |-> g.s, topCandidate |-> g.topCandidate,
   nilDereference |-> g.nilDereference, articleContent |-> articleContent]

articleOf(g, articleContent) ==
  withArticleContent(
    pagedArticle(appendSiblings([g EXCEPT !.h = Allocate(g.h, articleContent, elementNode, "div")],
                                g.h.Children[g.h.ParentNode[g.topCandidate]], 1,
                                articleContent),
                 articleContent),
    articleContent)

\* reading parentOfTopCandidate.TagName of a nil pointer ends the program
assembleArticle(g) ==
  IF g.nilDereference THEN withArticleContent([g EXCEPT !.h = Panic(g.h)], Nil)
  ELSE articleOf(g, NewNode(g.h))

\* one turn of the loop of grabArticle, up to the check of the text length;
\* prepArticle is left out, the length of the text is any length
grabScored(h, d, s, nb) ==
  assembleArticle(
    selectTopCandidate(h, h.Body[d],
                       topCandidatesOf(scoreAll(NewAttemptScores(s), h, elementsToScore(h, d), 1),
                                       h, nb)))

\* the text of 151 letters a paragraph holds
LongText == <<"word-of-151-letters">>

Paragraph(text) == <<"<", "p", ">">> \o text \o <<"<", "/", "p", ">">>

Section(inner) == <<"<", "section", ">">> \o inner \o <<"<", "/", "section", ">">>

\* what stands in the body, and after it
ScoredBlocks ==
  {<<>>, Paragraph(<<"x">>), Paragraph(LongText), Section(Paragraph(LongText)),
   Section(Section(Paragraph(LongText))),
   Section(Paragraph(LongText) \o Paragraph(LongText))}

Heads == {<<>>, <<"<", "head", ">", "<", "/", "head", ">">>,
          <<"<", "head", ">">> \o Paragraph(LongText) \o <<"<", "/", "head", ">">>}

ScoredPages ==
  {<<"<", "html", ">">> \o hd \o <<"<", "body", ">">> \o inBody \o <<"<", "/", "body", ">">>
     \o after \o <<"<", "/", "html", ">">> :
     hd \in Heads, inBody \in ScoredBlocks, after \in ScoredBlocks}

ScoredOptionSets == {o \in PageOptionSets : o.charThreshold = 1}

\* the start of grabArticle keeps the text of the page: pageCacheHtml (input);
\* no node has a score yet
ScoredPrepared(e) ==
  /\ Store(e.h)
  /\ IF e.err # ""
     THEN Returned("error", e.err, Nil) /\ pc' = "done" /\ UNCHANGED input
     ELSE UNCHANGED result /\ pc' = "grab" /\ input' = GetInnerHTML(e.h, e.h.Body[doc])
  /\ output' = [s |-> NoScores(DOMAIN NodeType), topCandidate |-> Nil,
                nilDereference |-> FALSE]
  /\ UNCHANGED <<htmlSource, options, doc, flags, attempts, tried, lastCall, ops>>

CallParseScored ==
  /\ pc = "ready"
  /\ ScoredPrepared(ParsePrepare(Heap, doc, options))

ScoredReturned(g, textLength) ==
  /\ flags' = g.flags
  /\ attempts' = g.attempts
  /\ tried' = Append(tried, [flags |-> flags, textLength |-> textLength])
  /\ IF g.done
     THEN /\ pc' = "done"
          /\ IF g.ret = Nil
             THEN Returned("error", errExtractionFailed, Nil)
             ELSE Returned("Result", "", g.ret)
     ELSE pc' = "grab" /\ UNCHANGED result
  /\ UNCHANGED <<htmlSource, options, doc, lastCall, ops, input>>

ScoredAttempted(g, textLength) ==
  /\ output' = [s |-> g.s, topCandidate |-> g.topCandidate,
                nilDereference |-> g.nilDereference]
  /\ IF g.nilDereference
     THEN /\ Store(g.h)
          /\ pc' = "done"
          /\ Returned("panic", "", Nil)
          /\ UNCHANGED <<htmlSource, options, doc, flags, attempts, tried, lastCall, ops,
                         input>>
     ELSE /\ Store(RestorePage(g.h, Body[doc], input, textLength, options))
          /\ ScoredReturned(grabArticleCheck(flags, attempts, options, g.articleContent,
                                             textLength),
                            textLength)

CallAttemptScored(textLength) ==
  /\ pc = "grab"
  /\ ScoredAttempted(grabScored(Heap, doc, output.s, defaultNTopCandidates), textLength)

NextScored ==
  \/ \E src \in ScoredPages, opts \in ScoredOptionSets : CallNewText(src, opts)
  \/ CallParseScored
  \/ \E textLength \in 0..1 : CallAttemptScored(textLength)

SpecScored == InitPool(RunNodes) /\ [][NextScored]_vars

\* --------------------------------------- encodeTextContentHTML, decodeHTML
\* A text is a sequence of pieces: the marks '&', '#', ';', '<', '>', a run
\* of letters (lt, amp), a run of digits (65) and an x with hexadecimal
\* digits (x41).
MaxEscapedLen == 4

\* reverseEntitySubsetReplacer
encodePiece(c) ==
  CASE c = "<" -> <<"&", "lt", ";">>
    [] c = ">" -> <<"&", "gt", ";">>
    [] c = "&" -> <<"&", "amp", ";">>
    [] OTHER -> <<c>>

RECURSIVE encodeTextContentHTML(_)
encodeTextContentHTML(text) ==
  IF text = <<>> THEN <<>> ELSE encodePiece(Head(text)) \o encodeTextContentHTML(Tail(text))

\* entityReplacer on the name of an entity reference
entityChar(name) ==
  CASE name = "lt" -> "<" [] name = "gt" -> ">" [] name = "amp" -> "&"
    [] name = "quot" -> "\"" [] OTHER -> "'"

\* entityReferencesRgx matches at i
entityAt(s, i) ==
  /\ i + 2 <= Len(s) /\ s[i] = "&" /\ s[i + 2] = ";"
  /\ s[i + 1] \in {"quot", "amp", "apos", "lt", "gt"}

\* entityReferencesRgx.ReplaceAllStringFunc: one pass from left to right
RECURSIVE decodeEntities(_, _)
decodeEntities(s, i) ==
  IF i > Len(s) THEN <<>>
  ELSE IF entityAt(s, i) THEN <<entityChar(s[i + 1])>> \o decodeEntities(s, i + 3)
  ELSE <<s[i]>> \o decodeEntities(s, i + 1)

\* the digits between "&#" and ";" that htmlCharCodesRgx accepts: up to 5
\* decimal digits, or x and up to 4 hexadecimal digits; and the character
\* of the code point
charCodes ==
  {[digits |-> <<"65">>, char |-> "A"], [digits |-> <<"65", "65">>, char |-> "U+19A5"],
   [digits |-> <<"x41">>, char |-> "A"], [digits |-> <<"x41", "65">>, char |-> "U+4165"]}

charCodeAt(s, i, code) ==
  /\ i + Len(code.digits) + 2 <= Len(s)
  /\ s[i] = "&" /\ s[i + 1] = "#"
  /\ SubSeq(s, i + 2, i + Len(code.digits) + 1) = code.digits
  /\ s[i + Len(code.digits) + 2] = ";"

codeAt(s, i) == CHOOSE code \in charCodes : charCodeAt(s, i, code)

\* the loop over htmlCharCodesRgx.FindAllStringSubmatch: every match is
\* replaced by the character of its code point
RECURSIVE decodeCharCodes(_, _)
decodeCharCodes(s, i) ==
  IF i > Len(s) THEN <<>>
  ELSE IF \E code \in charCodes : charCodeAt(s, i, code)
  THEN <<codeAt(s, i).char>> \o decodeCharCodes(s, i + Len(codeAt(s, i).digits) + 3)
  ELSE <<s[i]>> \o decodeCharCodes(s, i + 1)

decodeHTML(s) == decodeCharCodes(decodeEntities(s, 1), 1)

EscapedPieces == {"&", "#", ";", "<", "lt", "65", "x41"}

EscapedTexts == UNION {[1..k -> EscapedPieces] : k \in 0..MaxEscapedLen}

\* a text node whose text was set is written with encodeTextContentHTML and
\* read back with decodeHTML
CallDecodeEncoded(text) ==
  /\ pc = "new"
  /\ input' = text
  /\ output' = decodeHTML(encodeTextContentHTML(text))
  /\ pc' = "decoded"
  /\ UNCHANGED <<treeVars, htmlSource, options, doc, flags, attempts, tried, result>>

NextEscape == \E text \in EscapedTexts : CallDecodeEncoded(text)

SpecEscape == InitParse /\ [][NextEscape]_vars

\* ------------------------------------------------------------------ claims
\* the flags set in fl
FlagSet(fl) ==
  {f \in {flagStripUnlikelys, flagWeightClasses, flagCleanConditionally} :
     (fl \div f) % 2 = 1}

FlagSetsInOrder ==
  << {flagStripUnlikelys, flagWeightClasses, flagCleanConditionally},
     {flagWeightClasses, flagCleanConditionally},
     {flagCleanConditionally},
     {} >>

\* C1: within one Parse the attempts of grabArticle run with the flag sets
\* {STRIP, WEIGHT, CLEAN}, {WEIGHT, CLEAN}, {CLEAN}, {} in this order, as far
\* as they go; an attempt is followed by another one only if its text was
\* shorter than charThreshold, and then exactly the first flag still set has
\* been cleared; an attempt below charThreshold that ran with a flag set is
\* always followed by another one; no cleared flag is set again.
C1_FlagsClearedInOrder ==
  /\ Len(tried) <= 4
  /\ \A i \in 1..Len(tried) : FlagSet(tried[i].flags) = FlagSetsInOrder[i]
  /\ \A i \in 1..(Len(tried) - 1) : tried[i].textLength < options.charThreshold
  /\ pc = "grab" =>
       /\ Len(tried) < 4
       /\ FlagSet(flags) = FlagSetsInOrder[Len(tried) + 1]
  /\ (pc = "done" /\ tried # <<>>) =>
       /\ \/ tried[Len(tried)].textLength >= options.charThreshold
          \/ FlagSet(tried[Len(tried)].flags) = {}
       /\ FlagSet(flags) \subseteq FlagSet(tried[Len(tried)].flags)

C1_AllFourFlagSetsTried == pc = "done" /\ Len(tried) = 4

\* Parse returned after an attempt that ran with no flag set and was still
\* below charThreshold
RetriesExhausted ==
  /\ pc = "done" /\ tried # <<>>
  /\ FlagSet(tried[Len(tried)].flags) = {}
  /\ tried[Len(tried)].textLength < options.charThreshold

\* the earliest of the attempts with the greatest text length
EarliestLongest ==
  CHOOSE i \in 1..Len(tried) :
    \A j \in 1..Len(tried) :
      /\ tried[j].textLength <= tried[i].textLength
      /\ j < i => tried[j].textLength < tried[i].textLength

HasBodyTag(src) ==
  \E i \in 1..Len(src) :
    src[i].tt \in {StartTagToken, SelfClosingTagToken} /\ src[i].data = "body"

\* C4: New returns the EmptyInput error and no Readability for the empty
\* source, the ParseFailure error and no Readability for a source in which
\* the parser finds no <body>, and in every other case a Readability whose
\* flags are STRIP_UNLIKELYS, WEIGHT_CLASSES and CLEAN_CONDITIONALLY, all set.
C4_Step ==
  (pc = "new" /\ pc' # "new") =>
    IF htmlSource' = <<>>
    THEN /\ pc' = "done" /\ doc' = Nil
         /\ result'.value = "error" /\ result'.err = errEmptyInput
    ELSE IF ~HasBodyTag(htmlSource')
    THEN /\ pc' = "done" /\ doc' = Nil
         /\ result'.value = "error" /\ result'.err = errParseFailure
    ELSE /\ pc' = "ready" /\ doc' # Nil /\ Body'[doc'] # Nil
         /\ result'.value = "Readability" /\ result'.err = ""
         /\ FlagSet(flags') =
              {flagStripUnlikelys, flagWeightClasses, flagCleanConditionally}

C4_NewErrorsOrAllFlags == [][C4_Step]_vars

C4_ReadabilityWithAllFlags ==
  /\ pc = "ready" /\ result.value = "Readability"
  /\ HasBodyTag(htmlSource)
  /\ FlagSet(flags) = {flagStripUnlikelys, flagWeightClasses, flagCleanConditionally}

\* the elements the document holds: those below doc, following ParentNode
DocElements ==
  {n \in Nodes : NodeType[n] = elementNode /\ n # doc /\ doc \in InclusiveAncestors(n)}

\* C5: Parse on a document that holds more elements than a maxElemsToParse
\* greater than 0 returns the DocumentTooLarge error and changes no field of
\* any node; otherwise Parse goes on without that error, and with
\* maxElemsToParse 0 that error is never returned.
C5_Step ==
  /\ (pc = "ready" /\ pc' # "ready") =>
       IF options.maxElemsToParse > 0
          /\ Cardinality(DocElements) > options.maxElemsToParse
       THEN /\ pc' = "done"
            /\ result'.value = "error" /\ result'.err = errDocumentTooLarge
            /\ UNCHANGED <<NodeType, LocalName, ParentNode, NextSibling,
                           PreviousSibling, PreviousElementSibling,
                           NextElementSibling, ChildNodes, Children, Body,
                           DocumentElement>>
       ELSE pc' = "grab" /\ result'.err # errDocumentTooLarge
  /\ options'.maxElemsToParse = 0 => result'.err # errDocumentTooLarge

C5_TooLargeLeavesTree == [][C5_Step]_vars

C5_TooLargeWithScript ==
  /\ pc = "done" /\ result.err = errDocumentTooLarge
  /\ \E n \in DocElements : LocalName[n] = "script"

IsElement(x) == NodeType[x] = elementNode
Occurrences(x, a) == Cardinality({i \in 1..Len(a) : a[i] = x})
At(a, i) == IF i >= 1 /\ i <= Len(a) THEN a[i] ELSE Nil

\* C6: after any sequence of AppendChild, RemoveChild and ReplaceChild calls
\* that returned, the Children list of every node is the subsequence of its
\* ChildNodes list made of the element nodes, in the same order.
C6_ChildrenAreElementChildNodes ==
  ~panicked => \A n \in Live : Children[n] = SelectSeq(ChildNodes[n], IsElement)

\* C7: after any sequence of AppendChild, RemoveChild, ReplaceChild,
\* SetInnerHTML and SetTextContent calls that returned, a node has no
\* ParentNode exactly when it occurs in no ChildNodes list, and a node whose
\* ParentNode is p occurs exactly once in p.ChildNodes and in no other
\* ChildNodes list.
C7_ParentAgreesWithChildNodes ==
  ~panicked =>
    \A n \in Live :
      /\ (ParentNode[n] = Nil) <=> (\A p \in Live : Occurrences(n, ChildNodes[p]) = 0)
      /\ ParentNode[n] # Nil =>
           /\ Occurrences(n, ChildNodes[ParentNode[n]]) = 1
           /\ \A q \in Live \ {ParentNode[n]} : Occurrences(n, ChildNodes[q]) = 0

\* C8: after any sequence of AppendChild, RemoveChild and ReplaceChild calls
\* that returned, the sibling links agree with the lists: the neighbours of
\* p.ChildNodes[i] are p.ChildNodes[i-1] and p.ChildNodes[i+1], the element
\* neighbours of p.Children[i] are p.Children[i-1] and p.Children[i+1], nil
\* at the ends.
C8_SiblingLinksAgreeWithLists ==
  ~panicked =>
    \A p \in Live :
      /\ \A i \in 1..Len(ChildNodes[p]) :
           /\ PreviousSibling[ChildNodes[p][i]] = At(ChildNodes[p], i - 1)
           /\ NextSibling[ChildNodes[p][i]] = At(ChildNodes[p], i + 1)
      /\ \A i \in 1..Len(Children[p]) :
           /\ PreviousElementSibling[Children[p][i]] = At(Children[p], i - 1)
           /\ NextElementSibling[Children[p][i]] = At(Children[p], i + 1)

Without(a, x) == SelectSeq(a, LAMBDA y : y # x)

\* C9: AppendChild(child) on n, for a child that has a parent p before the
\* call (n itself or another node), leaves child as the last entry of
\* n.ChildNodes, once in that list and in no other ChildNodes list, with n as
\* its parent; an element child is likewise the last entry of n.Children and
\* in no other Children list; and the lists of p hold the entries they held
\* before, child taken out, in the order they had.
C9_Step ==
  (lastCall'.op = "AppendChild" /\ lastCall'.from # Nil) =>
    /\ ~panicked'
    /\ ParentNode'[lastCall'.child] = lastCall'.n
    /\ ChildNodes'[lastCall'.n] =
         Append(Without(ChildNodes[lastCall'.n], lastCall'.child), lastCall'.child)
    /\ \A q \in Live \ {lastCall'.n} :
         ChildNodes'[q] = Without(ChildNodes[q], lastCall'.child)
    /\ IsElement(lastCall'.child) =>
         /\ Children'[lastCall'.n] =
              Append(Without(Children[lastCall'.n], lastCall'.child), lastCall'.child)
         /\ \A q \in Live \ {lastCall'.n} :
              Children'[q] = Without(Children[q], lastCall'.child)
    /\ ChildNodes'[lastCall'.from] \in
         {Without(ChildNodes[lastCall'.from], lastCall'.child),
          Append(Without(ChildNodes[lastCall'.from], lastCall'.child), lastCall'.child)}

C9_AppendChildDetachesFirst == [][C9_Step]_vars

\* C10: RemoveChild(child) on n, when child is in n.ChildNodes, returns child
\* and no error, child has no ParentNode and none of its four sibling links,
\* and the former neighbours of child (and its former element neighbours) are
\* linked to each other; when child is not in n.ChildNodes it returns an
\* error and no field of any node changes.
C10_Found ==
  /\ ~panicked'
  /\ lastCall'.ret = lastCall'.child /\ ~lastCall'.err
  /\ ParentNode'[lastCall'.child] = Nil
  /\ PreviousSibling'[lastCall'.child] = Nil
  /\ NextSibling'[lastCall'.child] = Nil
  /\ PreviousElementSibling'[lastCall'.child] = Nil
  /\ NextElementSibling'[lastCall'.child] = Nil
  /\ PreviousSibling[lastCall'.child] # Nil =>
       NextSibling'[PreviousSibling[lastCall'.child]] = NextSibling[lastCall'.child]
  /\ NextSibling[lastCall'.child] # Nil =>
       PreviousSibling'[NextSibling[lastCall'.child]] = PreviousSibling[lastCall'.child]
  /\ PreviousElementSibling[lastCall'.child] # Nil =>
       NextElementSibling'[PreviousElementSibling[lastCall'.child]] =
         NextElementSibling[lastCall'.child]
  /\ NextElementSibling[lastCall'.child] # Nil =>
       PreviousElementSibling'[NextElementSibling[lastCall'.child]] =
         PreviousElementSibling[lastCall'.child]

C10_NotFound ==
  /\ lastCall'.err /\ lastCall'.ret = Nil
  /\ UNCHANGED <<NodeType, LocalName, ParentNode, NextSibling, PreviousSibling,
                 PreviousElementSibling, NextElementSibling, ChildNodes,
                 Children, Body, DocumentElement, innerHTML, Attributes, panicked>>

C10_Step ==
  lastCall'.op = "RemoveChild" =>
    IF indexOf(lastCall'.child, ChildNodes[lastCall'.n]) # NotFound
    THEN C10_Found ELSE C10_NotFound

C10_RemoveChildUnlinks == [][C10_Step]_vars

C9_MovedFromAnotherParent ==
  /\ lastCall.op = "AppendChild" /\ ~panicked
  /\ lastCall.from # Nil /\ lastCall.from # lastCall.n
  /\ Len(ChildNodes[lastCall.from]) >= 2
  /\ LastOf(ChildNodes[lastCall.n]) = lastCall.child

C10_RemovedFromTheMiddle ==
  /\ lastCall.op = "RemoveChild" /\ ~lastCall.err /\ ~panicked
  /\ lastCall.at = 2
  /\ Len(ChildNodes[lastCall.n]) >= 2
  /\ ParentNode[lastCall.child] = Nil

\* C11: for a child c (text or element) of a node and a detached element p,
\* ReplaceChild(p, c) followed by ReplaceChild(c, p) returns without panic and
\* leaves every field of every node as it was before the two calls: the
\* ChildNodes and Children of the parent, the four sibling links of c and of
\* its siblings, and p detached.
C11_ReplaceTwiceRestores ==
  pc = "restored" =>
    /\ ~panicked
    /\ Heap = input

C11_TextAfterElementRestored ==
  /\ pc = "restored" /\ ~panicked
  /\ NodeType[lastCall.child] = textNode
  /\ ParentNode[lastCall.child] = lastCall.n
  /\ ParentNode[lastCall.old] = Nil
  /\ PreviousSibling[lastCall.child] # Nil
  /\ NodeType[PreviousSibling[lastCall.child]] = elementNode

\* m is n or a node below n
RECURSIVE IsUnder(_, _, _)
IsUnder(m, n, k) ==
  m # Nil /\ k > 0 /\ (m = n \/ IsUnder(ParentNode[m], n, k - 1))

\* the nodes of the subtree of n
Subtree(n) ==
  {m \in DOMAIN NodeType : NodeType[m] # freeSlot /\ IsUnder(m, n, Cardinality(DOMAIN NodeType))}

\* C12: when Parse succeeds, the article it returns holds no element whose
\* tag is SCRIPT, STYLE or NOSCRIPT, whichever attempt of the retry loop made
\* the article.
C12_NoScriptInArticle ==
  (pc = "done" /\ result.value = "Result") =>
    \A m \in Subtree(result.articleContent) :
      LocalName[m] \notin {"script", "style", "noscript"}

\* the href is a fragment, or an absolute URI that is not a javascript: URI
IsFragment(href) == href # <<>> /\ href[1] = "#"
IsAbsoluteNotJavascript(href) == href # <<>> /\ href[1] \in Schemes \ {"javascript:", "JAVASCRIPT:"}

\* the href is a javascript: URI, as a browser reads it
IsJavascript(href) ==
  TrimSpace(href) # <<>> /\ ToLower(TrimSpace(href)[1]) = "javascript:"

\* C13: after fixRelativeUris, an <a> with an href has a fragment or an
\* absolute URI that is not a javascript: URI, and a link whose href was a
\* javascript: URI stands replaced by a text node (it had a single text
\* child) or by a <span> with its children.
C13_NoJavascriptHref ==
  (pc = "fixed" /\ ~output.panicked) =>
    /\ (output.link.node = "a" /\ output.link.href # <<>>) =>
         (IsFragment(output.link.href) \/ IsAbsoluteNotJavascript(output.link.href))
    /\ IsJavascript(input.article.link.href) =>
         /\ output.link.node = IF input.article.link.children = <<"text">>
                               THEN "text" ELSE "span"
         /\ output.link.children =
              IF output.link.node = "span" THEN input.article.link.children ELSE <<>>

\* C15: toAbsoluteURI returns a text for every value that is not empty, a
\* value that cannot be parsed as a URL stays as it was, and fixRelativeUris
\* never aborts.
C15_ToAbsoluteURINeverAborts ==
  pc = "fixed" =>
    /\ ~output.panicked
    /\ (input.article.media.src # <<>> /\ urlParse(TrimSpace(input.article.media.src)).err) =>
         output.media.src = input.article.media.src

\* C14: a JSON-LD block never aborts the parse: whatever the block holds,
\* getJSONLD takes metadata from it or skips it, and returns.
C14_JSONLDNeverAborts == pc = "jsonld" => ~output.panicked

\* the value of a key among the <meta> elements: the trimmed content of the
\* last element that has the key and a content
MetaValue(key) ==
  IF \E i \in 1..Len(input.metaElements) :
       metaKey(input.metaElements[i]) = key /\ input.metaElements[i].content # <<>>
  THEN TrimSpace(input.metaElements[
         CHOOSE i \in 1..Len(input.metaElements) :
           /\ metaKey(input.metaElements[i]) = key /\ input.metaElements[i].content # <<>>
           /\ \A j \in (i + 1)..Len(input.metaElements) :
                ~(metaKey(input.metaElements[j]) = key
                  /\ input.metaElements[j].content # <<>>)].content)
  ELSE <<>>

\* the value of the first key of keys that has one that is not empty, or fallback
RECURSIVE FirstMetaValue(_, _, _)
FirstMetaValue(keys, i, fallback) ==
  IF i > Len(keys) THEN fallback
  ELSE IF MetaValue(keys[i]) # <<>> THEN MetaValue(keys[i])
  ELSE FirstMetaValue(keys, i + 1, fallback)

\* the field is the JSON-LD value when that is not empty, and else the
\* first <meta> value of the keys that is not empty, or the fallback
Chosen(jsonValue, keys, fallback) ==
  IF jsonValue # <<>> THEN jsonValue ELSE FirstMetaValue(keys, 1, fallback)

\* C16 as it was stated: each field is the chosen value itself.
C16_MetadataIsChosenValue ==
  pc = "metadata" =>
    /\ output.title = Chosen(input.jsonld.title, titleKeys, input.articleTitle)
    /\ output.byline = Chosen(input.jsonld.byline, bylineKeys, <<>>)
    /\ output.excerpt = Chosen(input.jsonld.excerpt, excerptKeys, <<>>)
    /\ output.siteName = Chosen(input.jsonld.siteName, siteNameKeys, <<>>)
    /\ output.publishedTime = Chosen(input.jsonld.datePublished, publishedTimeKeys, <<>>)

\* C16, amended: each field of the metadata is the JSON-LD value when that
\* is not empty, else the first <meta> value in the key order that is not
\* empty after trimming (and, for the title only, the title heuristic when
\* all are empty), with its HTML entities unescaped.
C16_MetadataIsChosenValueUnescaped ==
  pc = "metadata" =>
    /\ output.title =
         unescapeHtmlEntities(Chosen(input.jsonld.title, titleKeys, input.articleTitle))
    /\ output.byline = unescapeHtmlEntities(Chosen(input.jsonld.byline, bylineKeys, <<>>))
    /\ output.excerpt = unescapeHtmlEntities(Chosen(input.jsonld.excerpt, excerptKeys, <<>>))
    /\ output.siteName = unescapeHtmlEntities(Chosen(input.jsonld.siteName, siteNameKeys, <<>>))
    /\ output.publishedTime =
         unescapeHtmlEntities(Chosen(input.jsonld.datePublished, publishedTimeKeys, <<>>))

\* no JSON-LD title, and two <meta> titles: og:title comes before
\* twitter:title in the key order, whatever their order in the document
C16_OgTitleBeforeTwitterTitle ==
  /\ pc = "metadata"
  /\ input.jsonld.title = <<>>
  /\ Len(input.metaElements) = 2
  /\ metaKey(input.metaElements[1]) = "twitter:title"
  /\ metaKey(input.metaElements[2]) = "og:title"
  /\ input.metaElements[1].content = <<"n">>
  /\ output.title = <<"m">>

\* the <title> text of the call: the first <title> with a text, trimmed
TitleText ==
  IF \E i \in 1..Len(input.titles) : TrimSpace(input.titles[i]) # <<>>
  THEN TrimSpace(input.titles[CHOOSE i \in 1..Len(input.titles) :
                   /\ TrimSpace(input.titles[i]) # <<>>
                   /\ \A j \in 1..(i - 1) : TrimSpace(input.titles[j]) = <<>>])
  ELSE <<>>

\* the words of a text
Words(s) == SelectSeq(s, LAMBDA c : c # " ")

\* the words of a text with one blank between two of them
RECURSIVE Spaced(_)
Spaced(words) ==
  IF Len(words) < 2 THEN words ELSE <<Head(words), " ">> \o Spaced(Tail(words))

\* the case of the claim: no separator between blanks and no ": " in the
\* title, a title shorter than 15 or longer than 150 characters, one <h1>
ShortOrLongTitleAndOneHeading ==
  /\ pc = "title"
  /\ \A k \in 1..Len(TitleText) : TitleText[k] \notin {"|", "-", "/", ":"}
  /\ RuneLen(TitleText) < 15 \/ RuneLen(TitleText) > 150
  /\ Len(input.hOnes) = 1

\* C19 as it was stated: the title is the text of the <h1>, whatever the
\* number of its words.
C19_TitleIsHeadingText ==
  ShortOrLongTitleAndOneHeading => output = Spaced(Words(input.hOnes[1]))

\* C19, amended: in the case of the claim, the title is the text of the
\* <h1> when that has more than 4 words, and the <title> text otherwise.
C19_TitleIsHeadingTextOfFiveWords ==
  ShortOrLongTitleAndOneHeading =>
    output = IF Len(Words(input.hOnes[1])) > 4 THEN Spaced(Words(input.hOnes[1]))
             ELSE TitleText

\* a short title and one <h1> of five words, which is the title returned
C19_HeadingOfFiveWordsReturned ==
  /\ ShortOrLongTitleAndOneHeading
  /\ Len(Words(input.hOnes[1])) = 5
  /\ TitleText = <<"a", " ", "b">>
  /\ output = input.hOnes[1]

\* an attribute src="real.jpg" among attrs
HasRealSrc(attrs) ==
  \E j \in 1..Len(attrs) : attrs[j].name = "src" /\ attrs[j].value = "real.jpg"

\* n is an <img> without src and srcset, and the element after it is a
\* <noscript> that holds one <img src="real.jpg"> and nothing else
IsPlaceholder(n) ==
  /\ NodeType[n] = elementNode /\ LocalName[n] = "img"
  /\ n \in Subtree(doc)
  /\ \A j \in 1..Len(Attributes[n]) : Attributes[n][j].name \notin {"src", "srcset"}
  /\ NextElementSibling[n] # Nil
  /\ LocalName[NextElementSibling[n]] = "noscript"
  /\ Len(ChildNodes[NextElementSibling[n]]) = 1
  /\ LocalName[ChildNodes[NextElementSibling[n]][1]] = "img"
  /\ ChildNodes[ChildNodes[NextElementSibling[n]][1]] = <<>>
  /\ Attributes[ChildNodes[NextElementSibling[n]][1]] = <<[name |-> "src", value |-> "real.jpg"]>>

\* the document holds an <img> with src="real.jpg"
HoldsRealImage ==
  \E m \in Subtree(doc) : LocalName[m] = "img" /\ HasRealSrc(Attributes[m])

\* the place of n among the element children of its parent holds an <img>
\* with src="real.jpg" afterwards
ReplacedByRealImage(n) ==
  /\ indexOf(n, Children[ParentNode[n]]) <= Len(Children'[ParentNode[n]])
  /\ LocalName'[Children'[ParentNode[n]][indexOf(n, Children[ParentNode[n]])]] = "img"
  /\ HasRealSrc(Attributes'[Children'[ParentNode[n]][indexOf(n, Children[ParentNode[n]])]])

C20_AnyStep ==
  (pc = "ready" /\ pc' = "scriptsRemoved" /\ \E n \in PageNodes : IsPlaceholder(n))
    => HoldsRealImage'

\* C20 as it was stated: when an <img> without src and srcset stands before
\* a <noscript> that holds one <img src="real.jpg">, the document holds an
\* <img src="real.jpg"> after unwrapNoscriptImages and removeScripts.
C20_PlaceholderReplaced == [][C20_AnyStep]_vars

C20_Step ==
  (pc = "ready" /\ pc' = "scriptsRemoved") =>
    \A n \in PageNodes :
      IsPlaceholder(n) =>
        /\ (\E j \in 1..Len(Attributes[n]) :
              \/ Attributes[n][j].name \in {"data-src", "data-srcset"}
              \/ Attributes[n][j].value \in {"real.jpg", "p.jpg", "lazy.jpg", "a.png"})
             => ReplacedByRealImage(n)
        /\ (/\ \A j \in 1..Len(Attributes[n]) :
                 /\ Attributes[n][j].name \notin {"data-src", "data-srcset"}
                 /\ Attributes[n][j].value \notin {"real.jpg", "p.jpg", "lazy.jpg", "a.png"}
            /\ PreviousElementSibling[n] = Nil)
             => ~HoldsRealImage'

\* C20, amended: such an <img> is replaced by the image of the <noscript>
\* when it has a data-src or data-srcset attribute or an attribute value
\* with an image extension; when it has none of these and no element stands
\* before it, it is removed and the document holds no <img src="real.jpg">
\* after unwrapNoscriptImages and removeScripts.
C20_KeptPlaceholderReplaced == [][C20_Step]_vars

\* <img data-src="lazy.jpg"/> before the <noscript>: the image that took its
\* place has both attributes
C20_LazyImageReplaced ==
  /\ pc = "scriptsRemoved"
  /\ htmlSource = <<"<", "body", ">", "<", "img", "data-src=lazy.jpg", "/", ">",
                    "<", "noscript", ">", "<", "img", "src=real.jpg", "/", ">",
                    "<", "/", "noscript", ">", "x">>
  /\ \E m \in Subtree(doc) :
       /\ LocalName[m] = "img"
       /\ Attributes[m] = <<[name |-> "src", value |-> "real.jpg"],
                            [name |-> "data-src", value |-> "lazy.jpg"]>>

C18_PostProcessIdempotent == pc = "processedTwice" => output[2] = output[1]

\* C21: the base score of an element whose text has at least 25 characters
\* is 1 + the number of commas of the text + min(floor(length / 100), 3),
\* and that is what its parent takes.
C21_BaseScore ==
  (pc = "scored" /\ RuneLen(input.innerText) >= 25 /\ Len(input.ancestors) > 1) =>
    /\ output.scored
    /\ output.contentScore =
         1 + Cardinality({k \in 1..Len(input.innerText) : input.innerText[k] = ","})
           + (IF RuneLen(input.innerText) >= 300 THEN 3 ELSE RuneLen(input.innerText) \div 100)
    /\ output.added[1] = 36 * output.contentScore

\* the rows and columns of the table of the call, a span that is absent, 0
\* or no number counting as 1
RECURSIVE SumOfSpans(_)
SumOfSpans(spans) ==
  IF spans = <<>> THEN 0
  ELSE (IF Head(spans) \in {"2", "5", "10"} THEN Atoi(Head(spans)) ELSE 1)
         + SumOfSpans(Tail(spans))

TableRowCount == SumOfSpans([i \in 1..Len(input.trs) |-> input.trs[i].rowspan])

TableColumnCount ==
  IF input.trs = <<>> THEN 0
  ELSE CHOOSE c \in {SumOfSpans(input.trs[i].cells) : i \in 1..Len(input.trs)} :
         \A i \in 1..Len(input.trs) : SumOfSpans(input.trs[i].cells) <= c

\* C22: the table is marked as the first rule of the list that matches
\* decides: role=presentation layout, datatable=0 layout, summary data, a
\* caption with children data, a col/colgroup/tfoot/thead/th descendant
\* data, a nested table layout, rows >= 10 or columns > 4 data, and else
\* data exactly when rows x columns > 10.
C22_FirstRuleDecides ==
  pc = "marked" =>
    /\ output.set
    /\ output.value =
         IF input.role = "presentation" THEN FALSE
         ELSE IF input.datatable = "0" THEN FALSE
         ELSE IF input.summary # "" THEN TRUE
         ELSE IF input.caption = "children" THEN TRUE
         ELSE IF input.descendant THEN TRUE
         ELSE IF input.nested THEN FALSE
         ELSE IF TableRowCount >= 10 \/ TableColumnCount > 4 THEN TRUE
         ELSE TableRowCount * TableColumnCount > 10

\* the node of the call is a list, and one of the seven conditions holds
CleanedIsList == input.tag \in {"ul", "ol"} \/ input.n.listShare > 9

CleanedWeight == IF input.flags \in {flagWeightClasses, flagWeightClasses + flagCleanConditionally}
                 THEN input.n.weight ELSE 0

AnyOfSevenConditions ==
  \/ input.n.img > 1 /\ 2 * input.n.p < input.n.img /\ input.n.figureAt = 0
  \/ ~CleanedIsList /\ input.n.li - 100 > input.n.p
  \/ input.n.input > input.n.p \div 3
  \/ /\ ~CleanedIsList /\ input.n.headingDensity < 9 /\ input.n.contentLength < 25
     /\ (input.n.img = 0 \/ input.n.img > 2) /\ input.n.figureAt = 0
  \/ ~CleanedIsList /\ CleanedWeight < 25 /\ input.n.linkDensity > 2
  \/ CleanedWeight >= 25 /\ input.n.linkDensity > 5
  \/ (input.n.embedCount = 1 /\ input.n.contentLength < 75) \/ input.n.embedCount > 1

\* C23: with CLEAN_CONDITIONALLY cleared nothing is removed; with it set, a
\* node that is no data table, has no data-table ancestor, no <code>
\* ancestor within 3 levels and no video embed is removed exactly when one
\* of the seven conditions holds and it is not a list of images.
C23_RemovedIffCondition ==
  pc = "cleaned" =>
    /\ input.flags = flagWeightClasses => ~output
    /\ (/\ input.flags # flagWeightClasses
        /\ ~(input.tag = "table" /\ input.n.dataTable)
        /\ ~input.n.dataTableAncestor
        /\ input.n.codeAt \notin {1, 2, 3}
        /\ ~(input.n.embedCount > 0 /\ input.n.videoEmbed))
         => (output <=> (/\ AnyOfSevenConditions
                         /\ ~(CleanedIsList /\ ~input.n.wideChild
                              /\ input.n.img = input.n.li)))

\* the title of the call, and what follows its first separator
CalledTitle == OrigTitle(input.titles)

AfterFirstSeparator(s) ==
  SubSeq(s, (CHOOSE k \in 1..Len(s) :
               s[k] \in finalPartChars /\ \A j \in 1..(k - 1) : s[j] \notin finalPartChars) + 1,
         Len(s))

\* C24: a title with a separator whose text before the final part has fewer
\* than 3 words becomes the title without its first part; seen where that
\* text has more than 4 words, so that the last step keeps it.
C24_FirstPartStripped ==
  (/\ pc = "title"
   /\ MatchesBetweenBlanks(CalledTitle, finalPartChars)
   /\ wordCount(FirstSubmatch(CalledTitle)) < 3
   /\ wordCount(getInnerText(AfterFirstSeparator(CalledTitle))) > 4)
    => output = getInnerText(AfterFirstSeparator(CalledTitle))

\* the sum of the scores of the selected nodes of the call, each node once
RECURSIVE SumOfScores(_)
SumOfScores(nodes) ==
  IF nodes = <<>> THEN 0
  ELSE (IF addsToScore(Head(nodes)) THEN nodeScore(Head(nodes)) ELSE 0)
       + SumOfScores(Tail(nodes))

\* C25: every selected node adds to the score at most once, a <div> with
\* several <br> included: the result is true exactly when the sum over the
\* selected nodes exceeds minScore.
C25_EachNodeOnce ==
  pc = "readerable" => (output <=> SumOfScores(input.ps \o input.divs) > defaultMinScore)

\* the loop over the candidates is over
CandidatesDone == pc = "candidates" /\ output.c > Len(input.candidates)

\* the final score of candidate i of the call
FinalScore(i) == input.candidates[i].contentScore * (2 - input.candidates[i].linkDensity)

\* C26: after the loop topCandidates holds min(nbTopCandidates, number of
\* candidates) distinct candidates in non-increasing order of final score,
\* the first is the earliest candidate of the greatest score, and no
\* candidate outside the list has a greater score than one inside.
C26_TopCandidatesSorted ==
  CandidatesDone =>
    /\ Len(output.topCandidates) = MinOf(input.nbTopCandidates, Len(input.candidates))
    /\ \A t, u \in 1..Len(output.topCandidates) :
         /\ output.topCandidates[t] \in 1..Len(input.candidates)
         /\ t < u => /\ output.topCandidates[t] # output.topCandidates[u]
                     /\ FinalScore(output.topCandidates[t]) >= FinalScore(output.topCandidates[u])
    /\ \A i \in 1..Len(input.candidates) :
         /\ FinalScore(output.topCandidates[1]) >= FinalScore(i)
         /\ FinalScore(output.topCandidates[1]) = FinalScore(i) => output.topCandidates[1] <= i
         /\ (\A t \in 1..Len(output.topCandidates) : output.topCandidates[t] # i)
              => \A t \in 1..Len(output.topCandidates) :
                   FinalScore(i) <= FinalScore(output.topCandidates[t])

\* a later candidate ties with the first top candidate and the list is full
C26_TieAndOverflow ==
  /\ CandidatesDone
  /\ Len(input.candidates) > input.nbTopCandidates
  /\ \E i \in 1..Len(input.candidates) :
       /\ i > output.topCandidates[1]
       /\ FinalScore(i) = FinalScore(output.topCandidates[1])
  /\ \E i \in 1..Len(input.candidates) :
       \A t \in 1..Len(output.topCandidates) : output.topCandidates[t] # i

\* C27: in the choice of the top candidate no walk through ParentNode comes
\* to a node without parent before it comes to the BODY: Parse never ends
\* by reading the TagName of a nil parentOfTopCandidate.
C27_WalksReachBody == ~(pc = "done" /\ result.value = "panic")

\* the elements that can be reached from the root of the document
ReachableElements ==
  {nodesFrom(Heap, DocumentElement[doc])[i] :
     i \in 1..Len(nodesFrom(Heap, DocumentElement[doc]))}

\* C29: when a retry begins, after the body was restored from pageCacheHtml,
\* no element that can be reached from the root carries a ReadabilityNode
\* of an earlier attempt.
C29_NoScoreLeftAtRetry ==
  (pc = "grab" /\ tried # <<>>) => ReachableElements \cap output.s.scored = {}

\* C28: a text survives being written and read back:
\* decodeHTML(encodeTextContentHTML(s)) = s for every s, a text with the
\* characters of an entity or character reference included.
C28_TextRoundTrip == pc = "decoded" => output = input

\* one turn of the loop of grabArticle: it returns, or it clears one flag and
\* records the attempt; with no flag set it returns; a failed attempt adds
\* one record; and there are never more than four turns
C30_Step ==
  pc = "grab" =>
    /\ \/ pc' = "done" /\ result'.value \in {"Result", "error"}
       \/ /\ pc' = "grab"
          /\ flags' \in {removeFlag(flags, f) :
                          f \in {flagStripUnlikelys, flagWeightClasses, flagCleanConditionally}}
          /\ flags' # flags
    /\ flags = 0 => pc' = "done"
    /\ Len(tried') = Len(tried) + 1
    /\ Len(tried') <= 4
    /\ tried'[Len(tried')].textLength < options.charThreshold
         => Len(attempts') = Len(attempts) + 1

\* C30: grabArticle always ends: every attempt returns or clears one of the
\* three flags, an attempt with no flag set returns, the loop makes at most
\* four attempts, and attempts grows by one record for each failed attempt.
C30_AttemptsReturnOrClear == [][C30_Step]_vars
====
